---- MODULE Spec2Model ----
(***************************************************************************)
(* A model of economy_bot.py: the wallet ledger, the wheel, reel, Card     *)
(* Duel (blackjack) and Heads-Up (hold'em) games, their session maps,      *)
(* view timeouts and the per-key asyncio lock, and the loan subsystem,     *)
(* for one (guild, user) key.                                              *)
(*                                                                         *)
(* Concurrency is asyncio's: a handler runs without interruption until an  *)
(* await that really suspends (a Discord HTTP call, or a held lock).  The  *)
(* sqlite calls and the awaits of coroutines that contain no suspending    *)
(* await (_safe_wallet_delta, _finish up to its last line) do not yield.   *)
(* So one action of the model is one handler from its start, or from the   *)
(* await it resumes from, to its next suspending await.                    *)
(***************************************************************************)
EXTENDS Integers, Sequences, FiniteSets, TLC

VARIABLES
    wallet,                 \* guild_users.wallet of the key
    stats,                  \* guild_users play counters and profit columns
    ach,                    \* user_achievements rows of the key (ach_id set)
    achievements_on,        \* guild_settings.achievements_enabled
    inventory,              \* inventory.qty of the key, per item_id
    loan,                   \* loans row of the key, or NoLoan
    now,                    \* time.time()
    reply,                  \* the response the last handler sent
    BJ_GAMES,               \* BJ_GAMES.get(key): a BJGame object id, or 0
    bjObj,                  \* the BJGame objects still referenced
    bjViews,                \* BlackjackView objects: is the timeout pending
    bjPending,              \* blackjack() calls suspended at line 1325
    HE_HU_GAMES_BY_ID,      \* game_id -> HoldemHU
    HE_HU_ACTIVE_BY_USER,   \* HE_HU_ACTIVE_BY_USER.get(key): a game_id, or 0
    heViews,                \* HoldemHUView objects, by game_id
    he_lock,                \* HE_HU_LOCKS[key]: holders and waiters
    scope,                  \* the part of the bot this behaviour exercises
    probe                   \* the arguments of the call examined, if any

ledgerVars == <<wallet, stats, ach, achievements_on, inventory, loan, now>>
duelVars   == <<BJ_GAMES, bjObj, bjViews, bjPending>>
holdemVars == <<HE_HU_GAMES_BY_ID, HE_HU_ACTIVE_BY_USER, heViews, he_lock>>
vars       == <<ledgerVars, duelVars, holdemVars, reply, scope, probe>>

----------------------------------------------------------------------------
(* CONFIG *)
MIN_BET == 10
MAX_BET == 100000
STRAIGHT_UP_RETURN_MULT == 36
COLOR_RETURN_MULT == 3
ROULETTE_LOSS_FEE_PCT == 5
BJ_DEALER_STANDS_SOFT_17 == TRUE
BJ_ALLOW_DOUBLE == TRUE
BJ_ALLOW_SURRENDER == TRUE
BJ_WIN_RETURN_MULT_NUM == 2
BJ_WIN_RETURN_MULT_DEN == 1
BJ_PUSH_RETURN_MULT_NUM == 1
BJ_PUSH_RETURN_MULT_DEN == 1
BJ_NATURAL_PROFIT_NUM == 3
BJ_NATURAL_PROFIT_DEN == 2
SLOTS_MIN_BET == 10
SLOTS_MAX_BET == 100000
LOAN_MIN_PRINCIPAL == 100
LOAN_MAX_PRINCIPAL == 100000
LOAN_DAILY_INTEREST_PCT == 25
LOAN_ORIGINATION_FEE_PCT == 10
DAY_SECONDS == 86400
ACH_HIGH_ROLLER_BET == 50000
ACH_MILLIONAIRE_WALLET == 1000000
ACH_ROULETTE_BIG_NET == 10000
BUY_MAX_QTY == 100
HE_BOT_CALL_MAX_PCT_OF_POT == 60
HE_BOT_RAISE_CHANCE == 12
HE_BOT_RAISE_PCT_OF_POT == 40
HE_BOT_RERAISE_CHANCE == 10
HE_BOT_LOOSE_CALL_CHANCE == 25

(* Bounds of the model *)
StartWallet == 30       \* the balance the account starts with
MaxWallet == 120        \* no new wager, loan or grant once the balance is above
MaxPlays == 1           \* wheel bets, and reel spins, explored
MaxDuels == 2           \* Card Duel sessions explored
MaxHands == 2           \* Heads-Up sessions explored
MaxWaiters == 1         \* handlers queued on the Heads-Up lock
MaxTicks == 2           \* half days the clock advances
MaxOwned == 2           \* copies of an item bought
MaxGames == 2           \* games played in a row in the "games" scope

Max(a, b) == IF a >= b THEN a ELSE b
Min(a, b) == IF a <= b THEN a ELSE b

----------------------------------------------------------------------------
(* ROULETTE HELPERS *)
RED_NUMBERS == {1, 3, 5, 7, 9, 12, 14, 16, 18, 19, 21, 23, 25, 27, 30, 32, 34, 36}

\* The pocket "00" is the one pocket that is no int; it is written 37 here,
\* an int no parsed token can name (roulette_number rejects n > 36).
DoubleZero == 37
POCKETS == {DoubleZero, 0} \cup (1..36)

pocket_color(p) ==
    IF p = DoubleZero \/ p = 0 THEN "green"
    ELSE IF p \in RED_NUMBERS THEN "red" ELSE "black"

\* loss_fee with no fee charged.
zero_fee(bet) == 0

loss_fee(bet) ==
    IF ROULETTE_LOSS_FEE_PCT <= 0 THEN 0
    ELSE (bet * ROULETTE_LOSS_FEE_PCT) \div 100

\* _validate_bet with the bounds check left out.
any_bet(bet) == TRUE

validate_bet(bet) == ~(bet < MIN_BET \/ bet > MAX_BET)

\* A pocket token is a sequence of characters.  strip() drops the blanks at
\* both ends; int() accepts an optional sign and decimal digits.
DigitChars == <<"0", "1", "2", "3", "4", "5", "6", "7", "8", "9">>
IsDigit(c) == \E i \in 1..10 : DigitChars[i] = c
DigitVal(c) == (CHOOSE i \in 1..10 : DigitChars[i] = c) - 1

RECURSIVE lstrip(_)
lstrip(s) == IF s # <<>> /\ Head(s) = " " THEN lstrip(Tail(s)) ELSE s

RECURSIVE rstrip(_)
rstrip(s) ==
    IF s # <<>> /\ s[Len(s)] = " " THEN rstrip(SubSeq(s, 1, Len(s) - 1)) ELSE s

strip(s) == rstrip(lstrip(s))

Unsigned(s) == IF s # <<>> /\ Head(s) \in {"-", "+"} THEN Tail(s) ELSE s
IsIntToken(s) ==
    /\ Unsigned(s) # <<>>
    /\ \A i \in 1..Len(Unsigned(s)) : IsDigit(Unsigned(s)[i])

RECURSIVE DigitsVal(_)
DigitsVal(s) ==
    IF s = <<>> THEN 0
    ELSE 10 * DigitsVal(SubSeq(s, 1, Len(s) - 1)) + DigitVal(s[Len(s)])

IntOf(s) ==
    IF s # <<>> /\ Head(s) = "-" THEN 0 - DigitsVal(Unsigned(s))
    ELSE DigitsVal(Unsigned(s))

\* roulette_number's parse of its pocket argument: a pocket, or -1 for the
\* "Invalid pocket" replies.
InvalidPocket == -1
parse_pocket(token) ==
    LET p == strip(token) IN
    IF p = <<"0", "0">> THEN DoubleZero
    ELSE IF ~IsIntToken(p) THEN InvalidPocket
    ELSE IF IntOf(p) < 0 \/ IntOf(p) > 36 THEN InvalidPocket
    ELSE IntOf(p)

----------------------------------------------------------------------------
(* ACHIEVEMENTS *)
AchReward ==
    [a \in {"roulette_big", "bj_blackjack", "bj_double", "slots_jackpot",
            "first_buy", "loan_shark", "loan_paid", "holdem_win", "high_roller",
            "millionaire"} |->
        CASE a = "roulette_big" -> 750
          [] a = "bj_blackjack" -> 750
          [] a = "bj_double" -> 400
          [] a = "slots_jackpot" -> 900
          [] a = "first_buy" -> 300
          [] a = "loan_shark" -> 200
          [] a = "loan_paid" -> 500
          [] a = "holdem_win" -> 600
          [] a = "high_roller" -> 800
          [] a = "millionaire" -> 1500]

\* A lookup that never finds the achievement.
never_has(A, a) == FALSE

has_achievement(A, a) == a \in A

\* unlock_achievement: the reward of a newly unlocked achievement, 0 for None.
unlock_achievement(A, a) == IF has_achievement(A, a) THEN 0 ELSE AchReward[a]

RECURSIVE SumRewards(_, _)
SumRewards(A, ids) ==
    IF ids = {} THEN 0
    ELSE LET a == CHOOSE x \in ids : TRUE
         IN unlock_achievement(A, a) + SumRewards(A, ids \ {a})

\* maybe_unlock_common_achs: the achievements it tries.  An argument left
\* None in the call is the empty set here.
maybe_unlock_common_achs(bet_amount, wallet_after) ==
    IF ~achievements_on THEN {}
    ELSE {a \in {"high_roller"} : \E b \in bet_amount : b >= ACH_HIGH_ROLLER_BET}
         \cup {a \in {"millionaire"} :
                  \E w \in wallet_after : w >= ACH_MILLIONAIRE_WALLET}

\* The achievements a handler tries: its own (when enabled and its condition
\* holds) and the common ones.
Tried(own, bet_amount, wallet_after) ==
    (IF achievements_on THEN own ELSE {})
        \cup maybe_unlock_common_achs(bet_amount, wallet_after)

----------------------------------------------------------------------------
(* LEDGER *)
\* update_wallet with the UPDATE lost.
lost_update(w, delta) == w

update_wallet(w, delta) == w + delta

\* The funds check made against the balance read before earlier bets, and the
\* funds check left out.
StaleFunds(amount, w) == amount > StartWallet
NoFundsCheck(amount, w) == FALSE

\* The funds check every debiting handler makes under BEGIN IMMEDIATE.
InsufficientFunds(amount, w) == amount > w

NoLoan == [principal |-> 0, balance |-> 0, daily_interest_pct |-> 0,
           opened_at |-> 0, last_accrual |-> 0, present |-> FALSE]

\* The exploration issues no new command once the balance is above MaxWallet;
\* the moves of a session in progress go on.
Open == wallet <= MaxWallet

----------------------------------------------------------------------------
(* STATS *)
apply_roulette_stats(st, bet, net) ==
    [st EXCEPT !.plays = @ + 1, !.profit = @ + net]

\* Statistics that count the game and drop its net.
count_only(st, bet, net, outcome) == [st EXCEPT !.bj_plays = @ + 1]

apply_blackjack_stats(st, bet, net, outcome) ==
    [st EXCEPT !.bj_plays = @ + 1, !.bj_profit = @ + net]

apply_slots_stats(st, bet, net) ==
    [st EXCEPT !.slots_plays = @ + 1, !.slots_profit = @ + net]

\* Statistics that count the hand and drop its net.
hands_only(st, bet, net, won) ==
    [st EXCEPT !.he_plays = @ + 1,
               !.he_wins = @ + (IF won THEN 1 ELSE 0),
               !.he_losses = @ + (IF won THEN 0 ELSE 1)]

apply_holdem_stats(st, bet, net, won) ==
    [st EXCEPT !.he_plays = @ + 1, !.he_profit = @ + net,
               !.he_wins = @ + (IF won THEN 1 ELSE 0),
               !.he_losses = @ + (IF won THEN 0 ELSE 1)]

----------------------------------------------------------------------------
(* ROULETTE *)
\* roulette_color and roulette_number from BEGIN IMMEDIATE to commit, with the
\* payout their roll gives.
WheelBet(bet, payout, win_title) ==
    IF InsufficientFunds(bet, wallet)
    THEN /\ reply' = "Not enough coins"
         /\ UNCHANGED ledgerVars
    ELSE LET fee == IF payout = 0 THEN loss_fee(bet) ELSE 0
             w1 == update_wallet(wallet, 0 - bet)
             w2 == IF fee # 0 THEN update_wallet(w1, 0 - fee) ELSE w1
             new_wallet == IF payout # 0 THEN update_wallet(w2, payout) ELSE w2
             net == payout - bet - fee
             tried == Tried(IF net >= ACH_ROULETTE_BIG_NET
                            THEN {"roulette_big"} ELSE {},
                            {bet}, {new_wallet})
         IN /\ wallet' = update_wallet(new_wallet, SumRewards(ach, tried))
            /\ ach' = ach \cup tried
            /\ stats' = apply_roulette_stats(stats, bet, net)
            /\ reply' = win_title
            /\ UNCHANGED <<achievements_on, inventory, loan, now>>

roulette_color(bet, choice, roll) ==
    /\ Open /\ stats.plays < MaxPlays
    /\ IF ~validate_bet(bet)
       THEN reply' = "Invalid bet" /\ UNCHANGED ledgerVars
       ELSE WheelBet(bet,
                     IF pocket_color(roll) = choice
                     THEN bet * COLOR_RETURN_MULT ELSE 0,
                     "Roulette (Color)")
    /\ UNCHANGED <<duelVars, holdemVars>>

roulette_number(bet, pocket, roll) ==
    /\ Open /\ stats.plays < MaxPlays
    /\ IF ~validate_bet(bet)
       THEN reply' = "Invalid bet" /\ UNCHANGED ledgerVars
       ELSE IF parse_pocket(pocket) = InvalidPocket
       THEN reply' = "Invalid pocket" /\ UNCHANGED ledgerVars
       ELSE WheelBet(bet,
                     IF roll = parse_pocket(pocket)
                     THEN bet * STRAIGHT_UP_RETURN_MULT ELSE 0,
                     "Roulette (Number)")
    /\ UNCHANGED <<duelVars, holdemVars>>

----------------------------------------------------------------------------
(* SLOTS *)
SLOTS_SYMBOLS == {"cherry", "lemon", "grape", "bell", "gem", "crown"}
\* A table paying every symbol as the cheapest.
flat_payout == [s \in SLOTS_SYMBOLS |-> 2]

SLOTS_PAYOUT ==
    [s \in SLOTS_SYMBOLS |->
        CASE s = "cherry" -> 2 [] s = "lemon" -> 3 [] s = "grape" -> 5
          [] s = "bell" -> 10 [] s = "gem" -> 25 [] s = "crown" -> 100]

slots(bet, reels) ==
    /\ Open /\ stats.slots_plays < MaxPlays
    /\ IF bet < SLOTS_MIN_BET \/ bet > SLOTS_MAX_BET
       THEN reply' = "Invalid bet" /\ UNCHANGED ledgerVars
       ELSE IF InsufficientFunds(bet, wallet)
       THEN reply' = "Not enough coins" /\ UNCHANGED ledgerVars
       ELSE LET match == reels[1] = reels[2] /\ reels[2] = reels[3]
                payout == IF match THEN bet * SLOTS_PAYOUT[reels[1]] ELSE 0
                jackpot == match /\ reels[1] = "crown"
                w1 == update_wallet(wallet, 0 - bet)
                new_wallet == IF payout # 0 THEN update_wallet(w1, payout) ELSE w1
                net == payout - bet
                tried == Tried(IF jackpot THEN {"slots_jackpot"} ELSE {},
                               {bet}, {new_wallet})
            IN /\ wallet' = update_wallet(new_wallet, SumRewards(ach, tried))
               /\ ach' = ach \cup tried
               /\ stats' = apply_slots_stats(stats, bet, net)
               /\ reply' = "Slots"
               /\ UNCHANGED <<achievements_on, inventory, loan, now>>
    /\ UNCHANGED <<duelVars, holdemVars>>

----------------------------------------------------------------------------
(* SHOP, ADMIN, SETTINGS *)
ItemPrice == [i \in {"collectible_01"} |-> 50]

buy(item_id, qty) ==
    /\ Open /\ \A i \in DOMAIN inventory : inventory[i] < MaxOwned
    /\ IF qty <= 0 \/ qty > BUY_MAX_QTY
       THEN reply' = "qty must be between 1 and 100" /\ UNCHANGED ledgerVars
       ELSE IF item_id \notin DOMAIN ItemPrice
       THEN reply' = "Invalid item_id" /\ UNCHANGED ledgerVars
       ELSE LET total == ItemPrice[item_id] * qty IN
            IF InsufficientFunds(total, wallet)
            THEN reply' = "Not enough coins" /\ UNCHANGED ledgerVars
            ELSE LET w1 == update_wallet(wallet, 0 - total)
                     own == IF achievements_on THEN {"first_buy"} ELSE {}
                     new_wallet == update_wallet(w1, SumRewards(ach, own))
                     common == maybe_unlock_common_achs({}, {new_wallet})
                 IN /\ wallet' = update_wallet(new_wallet,
                                               SumRewards(ach \cup own, common))
                    /\ ach' = ach \cup own \cup common
                    /\ inventory' = [inventory EXCEPT ![item_id] = @ + qty]
                    /\ reply' = "Purchase complete"
                    /\ UNCHANGED <<stats, achievements_on, loan, now>>
    /\ UNCHANGED <<duelVars, holdemVars>>

admin_give(amount) ==
    /\ Open
    /\ IF amount <= 0
       THEN reply' = "Amount must be positive" /\ UNCHANGED ledgerVars
       ELSE /\ wallet' = update_wallet(wallet, amount)
            /\ reply' = "Admin Give"
            /\ UNCHANGED <<stats, ach, achievements_on, inventory, loan, now>>
    /\ UNCHANGED <<duelVars, holdemVars>>

admin_take(amount) ==
    /\ Open
    /\ IF amount <= 0
       THEN reply' = "Amount must be positive" /\ UNCHANGED ledgerVars
       ELSE /\ wallet' = update_wallet(wallet, 0 - Min(amount, wallet))
            /\ reply' = "Admin Take"
            /\ UNCHANGED <<stats, ach, achievements_on, inventory, loan, now>>
    /\ UNCHANGED <<duelVars, holdemVars>>

settings_achievements(enabled) ==
    /\ achievements_on' = enabled
    /\ reply' = "Settings updated"
    /\ UNCHANGED <<wallet, stats, ach, inventory, loan, now>>
    /\ UNCHANGED <<duelVars, holdemVars>>

----------------------------------------------------------------------------
(* LOANS *)
\* Interest on the opening balance alone.
SimpleInterest(balance, rate_pct, days) ==
    balance + days * ((balance * rate_pct) \div 100)

RECURSIVE Compound(_, _, _)
Compound(balance, rate_pct, days) ==
    IF days <= 0 THEN balance
    ELSE Compound(balance + (balance * rate_pct) \div 100, rate_pct, days - 1)

\* An accrual that moves the accrual time to the time of the call.
accrue_to_now(row, t) ==
    IF ~row.present \/ row.balance <= 0 \/ t - row.last_accrual < DAY_SECONDS THEN row
    ELSE [row EXCEPT
            !.balance = Compound(row.balance, row.daily_interest_pct,
                                 (t - row.last_accrual) \div DAY_SECONDS),
            !.last_accrual = t]

accrue_loan(row, t) ==
    IF ~row.present THEN row
    ELSE IF row.balance <= 0 THEN row
    ELSE LET last0 == row.last_accrual
             last1 == IF last0 <= 0 THEN row.opened_at ELSE last0
             last == IF last1 <= 0 THEN t ELSE last1
             days == Max(0, (t - last) \div DAY_SECONDS)
         IN IF days <= 0 THEN row
            ELSE [row EXCEPT
                    !.balance = Compound(row.balance, row.daily_interest_pct, days),
                    !.last_accrual = last + days * DAY_SECONDS]

\* A loan granted without a row to record it.
no_loan_row(principal, balance, t) == NoLoan

set_loan(principal, balance, t) ==
    [principal |-> principal, balance |-> balance,
     daily_interest_pct |-> LOAN_DAILY_INTEREST_PCT,
     opened_at |-> t, last_accrual |-> t, present |-> TRUE]

\* A settled loan whose row is kept.
spent_loan == [NoLoan EXCEPT !.present = TRUE]

clear_loan == NoLoan

loan_take(amount) ==
    /\ Open
    /\ IF amount < LOAN_MIN_PRINCIPAL \/ amount > LOAN_MAX_PRINCIPAL
       THEN reply' = "Invalid amount" /\ UNCHANGED ledgerVars
       ELSE IF loan.present /\ loan.balance > 0
       THEN /\ loan' = accrue_loan(loan, now)
            /\ reply' = "Loan already active"
            /\ UNCHANGED <<wallet, stats, ach, achievements_on, inventory, now>>
       ELSE LET fee == (amount * LOAN_ORIGINATION_FEE_PCT) \div 100
                receive == amount - fee
                w1 == update_wallet(wallet, receive)
                own == IF achievements_on THEN {"loan_shark"} ELSE {}
                wallet_after == update_wallet(w1, SumRewards(ach, own))
                common == maybe_unlock_common_achs({}, {wallet_after})
            IN /\ loan' = set_loan(amount, amount, now)
               /\ wallet' = update_wallet(wallet_after,
                                          SumRewards(ach \cup own, common))
               /\ ach' = ach \cup own \cup common
               /\ reply' = "Loan taken"
               /\ UNCHANGED <<stats, achievements_on, inventory, now>>
    /\ UNCHANGED <<duelVars, holdemVars>>

loan_status ==
    /\ Open
    /\ loan' = accrue_loan(loan, now)
    /\ reply' = "Loan status"
    /\ UNCHANGED <<wallet, stats, ach, achievements_on, inventory, now>>
    /\ UNCHANGED <<duelVars, holdemVars>>

loan_repay(amount) ==
    /\ Open
    /\ IF amount <= 0
       THEN reply' = "Invalid amount" /\ UNCHANGED ledgerVars
       ELSE LET row == accrue_loan(loan, now) IN
            IF ~row.present \/ row.balance <= 0
            THEN reply' = "No loan" /\ UNCHANGED ledgerVars
            ELSE LET bal == row.balance
                     pay == Min(Min(amount, wallet), bal)
                     new_bal == bal - pay
                     w1 == update_wallet(wallet, 0 - pay)
                     own == IF achievements_on THEN {"loan_paid"} ELSE {}
                     wallet_after == update_wallet(w1, SumRewards(ach, own))
                     common == maybe_unlock_common_achs({}, {wallet_after})
                 IN IF pay <= 0
                    THEN reply' = "You don't have coins to repay"
                         /\ UNCHANGED ledgerVars
                    ELSE IF new_bal <= 0
                    THEN /\ loan' = clear_loan
                         /\ wallet' = update_wallet(wallet_after,
                                            SumRewards(ach \cup own, common))
                         /\ ach' = ach \cup own \cup common
                         /\ reply' = "Loan repaid in full"
                         /\ UNCHANGED <<stats, achievements_on, inventory, now>>
                    ELSE /\ loan' = [row EXCEPT !.balance = new_bal]
                         /\ wallet' = w1
                         /\ reply' = "Loan repaid"
                         /\ UNCHANGED <<stats, ach, achievements_on, inventory, now>>
    /\ UNCHANGED <<duelVars, holdemVars>>

\* The clock.  It is read by the loan handlers alone, so it stands still while
\* there is no loan row.
StartTime == 864000
HalfDay == DAY_SECONDS \div 2
Tick ==
    /\ loan.present
    /\ now + HalfDay <= StartTime + MaxTicks * HalfDay
    /\ now' = now + HalfDay
    /\ UNCHANGED <<wallet, stats, ach, achievements_on, inventory, loan, reply>>
    /\ UNCHANGED <<duelVars, holdemVars>>

----------------------------------------------------------------------------
(* BLACKJACK *)
\* A blackjack card is its rank (c[:-1]; the suit plays no part).  A deck is
\* what is left of each rank; draw_card on a shuffled deck is the choice of
\* any card left.  The sessions are explored on the ranks of DuelRanks.
SUITS == {"spades", "hearts", "diamonds", "clubs"}
RANKS == <<"A", "2", "3", "4", "5", "6", "7", "8", "9", "10", "J", "Q", "K">>
RankSet == {RANKS[i] : i \in 1..Len(RANKS)}
IntOfRank(rank) == CHOOSE i \in 2..10 : RANKS[i] = rank
DuelRanks == {"A", "6", "10"}
new_deck == [r \in DuelRanks |-> Cardinality(SUITS)]
Avail(deck) == {r \in DOMAIN deck : deck[r] > 0}
\* A draw that leaves the card in the deck.
keep_card(deck, c) == deck

draw_card(deck, c) == [deck EXCEPT ![c] = @ - 1]

card_value(rank) ==
    IF rank \in {"J", "Q", "K"} THEN 10
    ELSE IF rank = "A" THEN 11 ELSE IntOfRank(rank)

RECURSIVE SumValues(_)
SumValues(cards) ==
    IF cards = <<>> THEN 0 ELSE card_value(Head(cards)) + SumValues(Tail(cards))

CountAces(cards) == Cardinality({i \in 1..Len(cards) : cards[i] = "A"})

\* Aces that always count 11.
no_reduce(total, aces) == total

RECURSIVE ReduceAces(_, _)
ReduceAces(total, aces) ==
    IF total > 21 /\ aces > 0 THEN ReduceAces(total - 10, aces - 1) ELSE total

\* A total that counts the two dealt cards only.
dealt_value(cards) ==
    ReduceAces(SumValues(SubSeq(cards, 1, 2)), CountAces(SubSeq(cards, 1, 2)))

hand_value(cards) == ReduceAces(SumValues(cards), CountAces(cards))

is_soft(cards) ==
    LET min_total == SumValues(cards) - 10 * CountAces(cards)
    IN IF CountAces(cards) = 0 THEN FALSE ELSE (min_total + 10) <= 21

is_natural_blackjack(cards) == Len(cards) = 2 /\ hand_value(cards) = 21

\* A return that ignores its multiplier.
keep_amount(amount, num, den) == amount

frac_mult(amount, num, den) == (amount * num) \div den

BJGame(bet, deck, player, dealer) ==
    [bet |-> bet, deck |-> deck, player |-> player, dealer |-> dealer,
     done |-> FALSE, doubled |-> FALSE]

\* A BlackjackView is "live" from the time its message is sent, "closing"
\* while the edit that removes its buttons (the last line of _finish) is in
\* flight, "closed" after it, and "timedout" once on_timeout has run.  No
\* handler stops a view, so its timeout stays pending through all of these.
DuelIds == 1..MaxDuels
Clickable(v) == v \in DOMAIN bjViews /\ bjViews[v] \in {"live", "closing"}
TimerPending(v) ==
    v \in DOMAIN bjViews /\ bjViews[v] \in {"live", "closing", "closed"}

\* BJGame objects are kept while BJ_GAMES or a suspended blackjack() call
\* refers to them.
Referenced(objs, current, pending) ==
    LET keep == {current} \cup {p.gid : p \in pending}
    IN [g \in (DOMAIN objs) \cap keep |-> objs[g]]

UsedDuelIds == (DOMAIN bjViews) \cup (DOMAIN bjObj)
FreshDuelId == IF UsedDuelIds = {} THEN 1
               ELSE 1 + (CHOOSE m \in UsedDuelIds : \A u \in UsedDuelIds : u <= m)

\* A settlement that leaves the session registered.
finish_and_keep(v, w, g, outcome, payout, net, pend) ==
    LET new_wallet == IF payout # 0 THEN update_wallet(w, payout) ELSE w
    IN /\ wallet' = new_wallet
       /\ stats' = apply_blackjack_stats(stats, g.bet, net, outcome)
       /\ bjObj' = [bjObj EXCEPT ![BJ_GAMES] = g]
       /\ bjViews' = [x \in (DOMAIN bjViews) \cup {v} |->
                        IF x = v THEN "live" ELSE bjViews[x]]
       /\ bjPending' = pend
       /\ reply' = outcome
       /\ UNCHANGED <<ach, achievements_on, inventory, loan, now, BJ_GAMES>>

\* BlackjackView._finish called by view v when BJ_GAMES holds gid, whose
\* object is g after the caller's own mutations; w is the wallet after the
\* caller's own debits.
FinishDuel(v, w, g, outcome, payout, net, pend) ==
    LET new_wallet == IF payout # 0 THEN update_wallet(w, payout) ELSE w
        own == (IF is_natural_blackjack(g.player) THEN {"bj_blackjack"} ELSE {})
               \cup (IF g.doubled /\ outcome = "win" THEN {"bj_double"} ELSE {})
        tried == Tried(own, {g.bet}, {new_wallet})
    IN /\ wallet' = update_wallet(new_wallet, SumRewards(ach, tried))
       /\ ach' = ach \cup tried
       /\ stats' = apply_blackjack_stats(stats, g.bet, net, outcome)
       /\ BJ_GAMES' = 0
       /\ bjObj' = Referenced([bjObj EXCEPT ![BJ_GAMES] = [g EXCEPT !.done = TRUE]],
                              0, pend)
       /\ bjPending' = pend
       /\ bjViews' = [x \in (DOMAIN bjViews) \cup {v} |->
                        IF x = v THEN "closing" ELSE bjViews[x]]
       /\ reply' = outcome
       /\ UNCHANGED <<achievements_on, inventory, loan, now>>

\* A dealer who never draws.
DealerStays(dealer, deck) == {[dealer |-> dealer, deck |-> deck]}

\* The outcomes of the dealer's loop in _dealer_and_resolve, for either
\* setting of BJ_DEALER_STANDS_SOFT_17.
RECURSIVE DealerLoop(_, _, _)
DealerLoop(dealer, deck, stands_soft_17) ==
    LET dv == hand_value(dealer)
        draws == \/ dv < 17
                 \/ dv = 17 /\ ~stands_soft_17 /\ is_soft(dealer)
    IN IF draws
       THEN UNION {DealerLoop(Append(dealer, c), draw_card(deck, c), stands_soft_17) :
                       c \in Avail(deck)}
       ELSE {[dealer |-> dealer, deck |-> deck]}

DealerPlay(dealer, deck) == DealerLoop(dealer, deck, BJ_DEALER_STANDS_SOFT_17)

\* _dealer_and_resolve called by view v on the registered game, g after the
\* caller's mutations.
dealer_and_resolve(v, w, g) ==
    \E run \in DealerPlay(g.dealer, g.deck) :
        LET g2 == [g EXCEPT !.dealer = run.dealer, !.deck = run.deck]
            pv == hand_value(g2.player)
            dv == hand_value(g2.dealer)
            win == frac_mult(g2.bet, BJ_WIN_RETURN_MULT_NUM, BJ_WIN_RETURN_MULT_DEN)
            push == frac_mult(g2.bet, BJ_PUSH_RETURN_MULT_NUM, BJ_PUSH_RETURN_MULT_DEN)
        IN IF dv > 21 \/ pv > dv
           THEN FinishDuel(v, w, g2, "win", win, win - g2.bet, bjPending)
           ELSE IF pv = dv
           THEN FinishDuel(v, w, g2, "push", push, push - g2.bet, bjPending)
           ELSE FinishDuel(v, w, g2, "loss", 0, 0 - g2.bet, bjPending)

NoDuel == BJ_GAMES = 0 \/ bjObj[BJ_GAMES].done

RejectDuel(msg) ==
    /\ reply' = msg
    /\ UNCHANGED <<ledgerVars, duelVars>>

\* /blackjack up to its first suspending await: line 1325 for a natural, the
\* last line otherwise.
blackjack(bet, p1, p2, d1, d2) ==
    /\ Open /\ Cardinality(UsedDuelIds) < MaxDuels
    /\ IF ~validate_bet(bet) THEN RejectDuel("Invalid bet")
       ELSE IF BJ_GAMES # 0 THEN RejectDuel("You already have an active blackjack game")
       ELSE IF InsufficientFunds(bet, wallet) THEN RejectDuel("Not enough coins")
       ELSE LET w1 == update_wallet(wallet, 0 - bet)
                common == maybe_unlock_common_achs({bet}, {})
                deck1 == draw_card(new_deck, p1)
                deck2 == draw_card(deck1, p2)
                deck3 == draw_card(deck2, d1)
                deck4 == draw_card(deck3, d2)
                game == BJGame(bet, deck4, <<p1, p2>>, <<d1, d2>>)
                gid == FreshDuelId
            IN /\ p2 \in Avail(deck1) /\ d1 \in Avail(deck2) /\ d2 \in Avail(deck3)
               /\ wallet' = update_wallet(w1, SumRewards(ach, common))
               /\ ach' = ach \cup common
               /\ BJ_GAMES' = gid
               /\ bjObj' = [x \in (DOMAIN bjObj) \cup {gid} |->
                              IF x = gid THEN game ELSE bjObj[x]]
               /\ IF is_natural_blackjack(game.player)
                  THEN /\ bjPending' = bjPending \cup
                            {[gid |-> gid, dealer_bj |-> is_natural_blackjack(game.dealer)]}
                       /\ UNCHANGED <<bjViews, reply>>
                  ELSE /\ bjViews' = [x \in (DOMAIN bjViews) \cup {gid} |->
                                        IF x = gid THEN "live" ELSE bjViews[x]]
                       /\ reply' = "Blackjack"
                       /\ UNCHANGED bjPending
               /\ UNCHANGED <<stats, achievements_on, inventory, loan, now>>
    /\ UNCHANGED holdemVars

\* /blackjack resumed after line 1325 (the natural's message is sent and its
\* view stored): lines 1326-1336, with _finish.
blackjack_natural(p) ==
    /\ p \in bjPending
    /\ LET mine == bjObj[p.gid]
           profit == (mine.bet * BJ_NATURAL_PROFIT_NUM) \div BJ_NATURAL_PROFIT_DEN
           payout == IF p.dealer_bj THEN mine.bet ELSE mine.bet + profit
           outcome == IF p.dealer_bj THEN "push" ELSE "win"
       IN IF BJ_GAMES = 0
          THEN /\ bjViews' = [x \in (DOMAIN bjViews) \cup {p.gid} |->
                                IF x = p.gid THEN "live" ELSE bjViews[x]]
               /\ bjPending' = bjPending \ {p}
               /\ bjObj' = Referenced(bjObj, BJ_GAMES, bjPending \ {p})
               /\ reply' = "Blackjack"
               /\ UNCHANGED <<ledgerVars, BJ_GAMES>>
          ELSE FinishDuel(p.gid, wallet, bjObj[BJ_GAMES], outcome, payout,
                          payout - mine.bet, bjPending \ {p})
    /\ UNCHANGED holdemVars

hit(v, c) ==
    /\ Clickable(v)
    /\ IF NoDuel THEN RejectDuel("No active blackjack game")
       ELSE LET g == bjObj[BJ_GAMES]
                g1 == [g EXCEPT !.player = Append(@, c), !.deck = draw_card(@, c)]
            IN /\ c \in Avail(g.deck)
               /\ IF hand_value(g1.player) > 21
                  THEN FinishDuel(v, wallet, g1, "loss", 0, 0 - g1.bet, bjPending)
                  ELSE /\ bjObj' = [bjObj EXCEPT ![BJ_GAMES] = g1]
                       /\ reply' = "Blackjack"
                       /\ UNCHANGED <<ledgerVars, BJ_GAMES, bjViews, bjPending>>
    /\ UNCHANGED holdemVars

stand(v) ==
    /\ Clickable(v)
    /\ IF NoDuel
       THEN RejectDuel("(no response)")
       ELSE dealer_and_resolve(v, wallet, bjObj[BJ_GAMES])
    /\ UNCHANGED holdemVars

double(v, c) ==
    /\ Clickable(v)
    /\ IF ~BJ_ALLOW_DOUBLE THEN RejectDuel("Doubling is disabled")
       ELSE IF NoDuel THEN RejectDuel("No active blackjack game")
       ELSE LET g == bjObj[BJ_GAMES] IN
            IF Len(g.player) # 2 \/ g.doubled
            THEN RejectDuel("You can only double right after the deal")
            ELSE IF InsufficientFunds(g.bet, wallet)
            THEN RejectDuel("Not enough coins to double")
            ELSE LET w1 == update_wallet(wallet, 0 - g.bet)
                     g1 == [g EXCEPT !.bet = @ * 2, !.doubled = TRUE,
                                     !.player = Append(@, c),
                                     !.deck = draw_card(@, c)]
                 IN /\ c \in Avail(g.deck)
                    /\ IF hand_value(g1.player) > 21
                       THEN FinishDuel(v, w1, g1, "loss", 0, 0 - g1.bet, bjPending)
                       ELSE dealer_and_resolve(v, w1, g1)
    /\ UNCHANGED holdemVars

surrender(v) ==
    /\ Clickable(v)
    /\ IF ~BJ_ALLOW_SURRENDER THEN RejectDuel("Surrender is disabled")
       ELSE IF NoDuel THEN RejectDuel("No active blackjack game")
       ELSE LET g == bjObj[BJ_GAMES] IN
            IF Len(g.player) # 2 \/ g.doubled
            THEN RejectDuel("You can only surrender right after the deal")
            ELSE FinishDuel(v, wallet, g, "loss", g.bet \div 2,
                            (g.bet \div 2) - g.bet, bjPending)
    /\ UNCHANGED holdemVars

\* An on_timeout that hands the registered stake back.
refunding_timeout(v) ==
    /\ TimerPending(v)
    /\ bjViews' = [bjViews EXCEPT ![v] = "timedout"]
    /\ BJ_GAMES' = 0
    /\ bjObj' = Referenced(bjObj, 0, bjPending)
    /\ wallet' = IF BJ_GAMES # 0 THEN wallet + bjObj[BJ_GAMES].bet ELSE wallet
    /\ UNCHANGED <<stats, ach, achievements_on, inventory, loan, now>>
    /\ UNCHANGED <<bjPending, holdemVars, reply>>

\* BlackjackView.on_timeout of view v.
bj_on_timeout(v) ==
    /\ TimerPending(v)
    /\ bjViews' = [bjViews EXCEPT ![v] = "timedout"]
    /\ BJ_GAMES' = 0
    /\ bjObj' = Referenced(bjObj, 0, bjPending)
    /\ UNCHANGED <<ledgerVars, bjPending, holdemVars, reply>>

\* The edit at the end of _finish completes: the buttons of v are gone.
bj_edit_done(v) ==
    /\ v \in DOMAIN bjViews /\ bjViews[v] = "closing"
    /\ bjViews' = [bjViews EXCEPT ![v] = "closed"]
    /\ UNCHANGED <<ledgerVars, BJ_GAMES, bjObj, bjPending, holdemVars, reply>>

----------------------------------------------------------------------------
(* TEXAS HOLD'EM: the hand evaluator *)
\* A hold'em card is <<rank, suit>>.
RANK_ORDER ==
    [r \in RankSet |->
        CASE r = "J" -> 11 [] r = "Q" -> 12 [] r = "K" -> 13 [] r = "A" -> 14
          [] OTHER -> IntOfRank(r)]

card_rank(c) == c[1]
card_suit(c) == c[2]

\* Body(v) for v the value of e, e evaluated once.
Bind(e, Body(_)) == CHOOSE r \in {Body(v) : v \in {e}} : TRUE

SeqRange(xs) == {xs[i] : i \in 1..Len(xs)}
CountOf(xs, v) == Cardinality({i \in 1..Len(xs) : xs[i] = v})

\* sorted(..., reverse=True) of a sequence of ints: position k holds the
\* value with fewer than k elements above it and at least k not below it.
SortDesc(xs) ==
    [k \in 1..Len(xs) |->
        CHOOSE v \in SeqRange(xs) :
            /\ Cardinality({j \in 1..Len(xs) : xs[j] > v}) < k
            /\ k <= Cardinality({j \in 1..Len(xs) : xs[j] >= v})]

\* sorted(set(vals), reverse=True).
SetToSeqDesc(S) ==
    [k \in 1..Cardinality(S) |->
        CHOOSE v \in S : Cardinality({y \in S : y > v}) = k - 1]

\* groups: the distinct values with their counts, most frequent first, then
\* highest first.
GroupsOf(vals, S) ==
    LET Before(y, x) ==
            \/ CountOf(vals, y) > CountOf(vals, x)
            \/ CountOf(vals, y) = CountOf(vals, x) /\ y > x
    IN [k \in 1..Cardinality(S) |->
            LET m == CHOOSE x \in S : Cardinality({y \in S : Before(y, x)}) = k - 1
            IN [val |-> m, n |-> CountOf(vals, m)]]

Without(xs, drop) == SelectSeq(xs, LAMBDA v : v \notin drop)
FirstN(xs, n) == SubSeq(xs, 1, Min(n, Len(xs)))

\* An evaluator that knows no ace-low straight.
never_wheel(vals) == FALSE

\* set([14,5,4,3,2]).issubset(set(vals)).
is_wheel(vals) == {14, 5, 4, 3, 2} \subseteq SeqRange(vals)

\* An evaluator that knows no category.
HighCardOnly(vals, groups, is_flush, unique) == <<0, vals>>

\* poker_score_5 once vals, groups, is_flush and unique are computed.
Score5(vals, groups, is_flush, unique) ==
    LET runs == {i \in 1..(Len(unique) - 4) : unique[i] - unique[i + 4] = 4}
        wheel == is_wheel(vals)
        is_straight == Len(unique) >= 5 /\ (runs # {} \/ wheel)
        top_straight ==
            IF runs # {} THEN unique[CHOOSE i \in runs : \A j \in runs : i <= j]
            ELSE 5
    IN IF is_straight /\ is_flush THEN <<8, <<top_straight>>>>
       ELSE IF groups[1].n = 4
       THEN <<7, <<groups[1].val,
                   SortDesc(Without(vals, {groups[1].val}))[1]>>>>
       ELSE IF groups[1].n = 3 /\ Len(groups) > 1 /\ groups[2].n >= 2
       THEN <<6, <<groups[1].val, groups[2].val>>>>
       ELSE IF is_flush THEN <<5, vals>>
       ELSE IF is_straight THEN <<4, <<top_straight>>>>
       ELSE IF groups[1].n = 3
       THEN <<3, <<groups[1].val>> \o FirstN(Without(vals, {groups[1].val}), 2)>>
       ELSE IF groups[1].n = 2 /\ Len(groups) > 1 /\ groups[2].n = 2
       THEN LET hi == Max(groups[1].val, groups[2].val)
                lo == Min(groups[1].val, groups[2].val)
            IN <<2, <<hi, lo, SortDesc(Without(vals, {hi, lo}))[1]>>>>
       ELSE IF groups[1].n = 2
       THEN <<1, <<groups[1].val>> \o FirstN(Without(vals, {groups[1].val}), 3)>>
       ELSE <<0, vals>>

poker_score_5(cards) ==
    Bind(SortDesc([i \in 1..Len(cards) |-> RANK_ORDER[card_rank(cards[i])]]),
         LAMBDA vals :
            Bind(<<GroupsOf(vals, SeqRange(vals)),
                   Cardinality({card_suit(cards[i]) : i \in 1..Len(cards)}) = 1,
                   SetToSeqDesc(SeqRange(vals))>>,
                 LAMBDA t : Score5(vals, t[1], t[2], t[3])))

\* Python's order on lists of ints, and on (category, kickers) tuples.
RECURSIVE ListLess(_, _)
ListLess(a, b) ==
    IF a = <<>> THEN b # <<>>
    ELSE IF b = <<>> THEN FALSE
    ELSE IF Head(a) # Head(b) THEN Head(a) < Head(b)
    ELSE ListLess(Tail(a), Tail(b))

ScoreLess(a, b) == a[1] < b[1] \/ (a[1] = b[1] /\ ListLess(a[2], b[2]))

\* itertools.combinations(cards7, 5): the index sets, each in card order.
Combos5(n) == {S \in SUBSET (1..n) : Cardinality(S) = 5}
Pick(cards, S) ==
    SelectSeq([i \in 1..Len(cards) |-> IF i \in S THEN cards[i] ELSE <<>>],
              LAMBDA c : c # <<>>)

\* A best hand taken from the community cards alone.
board_only(cards7) == poker_score_5(SubSeq(cards7, 3, 7))

poker_best_7(cards7) ==
    Bind({poker_score_5(Pick(cards7, S)) : S \in Combos5(Len(cards7))},
         LAMBDA scores :
            IF scores = {} THEN <<0, <<>>>>
            ELSE CHOOSE best \in scores : \A x \in scores : ~ScoreLess(best, x))

\* The deals the sessions are explored on: the player's better hand, the
\* bot's better hand, and a board both play.
HoldemDeals ==
    {[player_hole |-> <<<<"A", "spades">>, <<"A", "hearts">>>>,
      bot_hole |-> <<<<"7", "clubs">>, <<"2", "diamonds">>>>,
      full_board |-> <<<<"K", "spades">>, <<"9", "diamonds">>, <<"5", "clubs">>,
                       <<"3", "hearts">>, <<"8", "spades">>>>],
     [player_hole |-> <<<<"7", "clubs">>, <<"2", "diamonds">>>>,
      bot_hole |-> <<<<"A", "spades">>, <<"A", "hearts">>>>,
      full_board |-> <<<<"K", "spades">>, <<"9", "diamonds">>, <<"5", "clubs">>,
                       <<"3", "hearts">>, <<"8", "spades">>>>],
     [player_hole |-> <<<<"2", "clubs">>, <<"3", "diamonds">>>>,
      bot_hole |-> <<<<"2", "diamonds">>, <<"3", "clubs">>>>,
      full_board |-> <<<<"10", "spades">>, <<"J", "hearts">>, <<"Q", "diamonds">>,
                       <<"K", "clubs">>, <<"A", "spades">>>>]}

\* _resolve_showdown's comparison of the two best hands: the player_won it
\* passes to _finish ("True", "False", or "None" for a tie).
Showdown(deal) ==
    Bind(<<poker_best_7(deal.player_hole \o SubSeq(deal.full_board, 1, 5)),
           poker_best_7(deal.bot_hole \o SubSeq(deal.full_board, 1, 5))>>,
         LAMBDA best :
            LET p_score == best[1]
                b_score == best[2]
            IN IF ScoreLess(b_score, p_score) THEN "True"
               ELSE IF ScoreLess(p_score, b_score) THEN "False" ELSE "None")

ShowdownOf == [d \in HoldemDeals |-> Showdown(d)]

----------------------------------------------------------------------------
(* TEXAS HOLD'EM: sessions *)
\* A hand whose pot opens with one ante only.
single_ante(game_id, ante, deal) ==
    [game_id |-> game_id, ante |-> ante,
     player_hole |-> deal.player_hole, bot_hole |-> deal.bot_hole,
     full_board |-> deal.full_board,
     stage |-> 0, pot |-> ante, to_call_player |-> 0, to_call_bot |-> 0,
     invested_player |-> ante, invested_bot |-> ante, done |-> FALSE]

\* A HoldemHU object.  Its deck is never read after the deal and last_action
\* is display text; neither is kept.
HoldemHU(game_id, ante, deal) ==
    [game_id |-> game_id, ante |-> ante,
     player_hole |-> deal.player_hole, bot_hole |-> deal.bot_hole,
     full_board |-> deal.full_board,
     stage |-> 0, pot |-> ante * 2, to_call_player |-> 0, to_call_bot |-> 0,
     invested_player |-> ante, invested_bot |-> ante, done |-> FALSE]

DealOf(game) ==
    [player_hole |-> game.player_hole, bot_hole |-> game.bot_hole,
     full_board |-> game.full_board]

\* random.randint(1, 100), on the values around the bot's thresholds.
RandPct == {1, 10, 11, 12, 13, 25, 26, 100}

\* A lock that never reports itself held.
never_locked(l) == FALSE

\* asyncio.Lock: locked(), and acquire() returning at once.
lock_locked(l) == l.held > 0
lock_free(l) == ~lock_locked(l) /\ l.waiters = <<>>

\* `not game or game.done` for the game of view v.
NoHand(v) ==
    v \notin DOMAIN HE_HU_GAMES_BY_ID \/ HE_HU_GAMES_BY_ID[v].done

\* The start check of /holdem left out.
never_active(active_id, games) == FALSE

\* The start check of /holdem: the key has an active game that is not done.
he_active(active_id, games) ==
    active_id # 0 /\ active_id \in DOMAIN games /\ ~games[active_id].done

safe_wallet_delta(w, delta) ==
    IF delta < 0 /\ InsufficientFunds(0 - delta, w)
    THEN [ok |-> FALSE, wallet |-> w]
    ELSE [ok |-> TRUE, wallet |-> update_wallet(w, delta)]

\* An opponent that folds to anything.
always_fold(game, r) == "fold"

bot_decision(game, r) ==
    IF game.to_call_bot <= 0
    THEN IF r <= HE_BOT_RAISE_CHANCE THEN "raise" ELSE "check"
    ELSE LET pot_if_call == game.pot + game.to_call_bot
             pct == IF pot_if_call <= 0 THEN 100
                    ELSE (game.to_call_bot * 100) \div Max(1, pot_if_call)
         IN IF pct <= HE_BOT_CALL_MAX_PCT_OF_POT
            THEN IF r <= HE_BOT_RERAISE_CHANCE THEN "raise" ELSE "call"
            ELSE IF r <= HE_BOT_LOOSE_CALL_CHANCE THEN "call" ELSE "fold"

\* A betting round that never closes.
stay_stage(game) == game

\* A deal that skips a round.
skip_stage(game) ==
    [game EXCEPT !.to_call_player = 0, !.to_call_bot = 0,
                 !.stage = IF game.stage + 2 > 3 THEN 4 ELSE game.stage + 2]

next_stage(game) ==
    [game EXCEPT !.to_call_player = 0, !.to_call_bot = 0,
                 !.stage = IF game.stage + 1 > 3 THEN 4 ELSE game.stage + 1]

at_showdown(game) == game.stage >= 4

\* A round that closes whatever is owed.
always_closed(game) == TRUE

\* `game.to_call_player == 0 and game.to_call_bot == 0` in _bot_act.
round_closed(game) == game.to_call_player = 0 /\ game.to_call_bot = 0

RejectHand(msg) ==
    /\ reply' = msg
    /\ UNCHANGED <<ledgerVars, HE_HU_GAMES_BY_ID, HE_HU_ACTIVE_BY_USER>>

\* HoldemHUView._finish on game g; w is the wallet after the caller's debits.
FinishHoldem(w, g, player_won, note) ==
    LET payout == IF player_won = "True" THEN g.pot
                  ELSE IF player_won = "None" THEN g.invested_player ELSE 0
        w1 == IF player_won \in {"True", "None"}
              THEN safe_wallet_delta(w, payout).wallet ELSE w
        net == payout - g.invested_player
        own == IF player_won = "True" /\ achievements_on
               THEN {"holdem_win"} ELSE {}
        wallet_after == update_wallet(w1, SumRewards(ach, own))
        common == maybe_unlock_common_achs({g.ante}, {wallet_after})
    IN /\ wallet' = update_wallet(wallet_after, SumRewards(ach \cup own, common))
       /\ ach' = ach \cup own \cup common
       /\ stats' = apply_holdem_stats(stats, g.invested_player, net,
                                      player_won = "True")
       /\ HE_HU_ACTIVE_BY_USER' =
            IF HE_HU_ACTIVE_BY_USER = g.game_id THEN 0 ELSE HE_HU_ACTIVE_BY_USER
       /\ HE_HU_GAMES_BY_ID' =
            [x \in (DOMAIN HE_HU_GAMES_BY_ID) \ {g.game_id} |-> HE_HU_GAMES_BY_ID[x]]
       /\ reply' = note
       /\ UNCHANGED <<achievements_on, inventory, loan, now>>

resolve_showdown(w, g) ==
    LET player_won == ShowdownOf[DealOf(g)]
    IN FinishHoldem(w, g, player_won,
                    IF player_won = "None" THEN "Showdown (tie)." ELSE "Showdown.")

\* _bot_act on game g (after the caller's mutations), with the bot's draw r.
bot_act(w, g, r) ==
    LET decision == bot_decision(g, r)
        base_pot == Max(1, g.pot)
        raise_amt == Min(Max(g.ante, (base_pot * HE_BOT_RAISE_PCT_OF_POT) \div 100),
                         MAX_BET)
        total == g.to_call_bot + raise_amt
        g1 == IF decision = "call"
              THEN [g EXCEPT !.pot = @ + g.to_call_bot,
                             !.invested_bot = @ + g.to_call_bot,
                             !.to_call_bot = 0, !.to_call_player = 0]
              ELSE IF decision = "raise"
              THEN [g EXCEPT !.pot = @ + total, !.invested_bot = @ + total,
                             !.to_call_bot = 0, !.to_call_player = raise_amt]
              ELSE g
        g2 == IF round_closed(g1)
              THEN IF g1.stage < 3 THEN next_stage(g1) ELSE [g1 EXCEPT !.stage = 4]
              ELSE g1
    IN IF decision = "fold" THEN FinishHoldem(w, g, "True", "Bot folded.")
       ELSE IF at_showdown(g2) THEN resolve_showdown(w, g2)
       ELSE /\ HE_HU_GAMES_BY_ID' = [HE_HU_GAMES_BY_ID EXCEPT ![g.game_id] = g2]
            /\ wallet' = w
            /\ reply' = "Texas Hold'em"
            /\ UNCHANGED <<stats, ach, achievements_on, inventory, loan, now,
                           HE_HU_ACTIVE_BY_USER>>

----------------------------------------------------------------------------
(* TEXAS HOLD'EM: the handlers, inside `async with _he_lock_for(key)` *)
check_call_locked(v) ==
    IF NoHand(v) THEN RejectHand("No active Hold'em game.")
    ELSE LET g == HE_HU_GAMES_BY_ID[v] IN
         IF g.to_call_player > 0
         THEN LET need == g.to_call_player
                  res == safe_wallet_delta(wallet, 0 - need)
                  g1 == [g EXCEPT !.pot = @ + need, !.invested_player = @ + need,
                                  !.to_call_player = 0, !.to_call_bot = 0]
              IN IF ~res.ok
                 THEN RejectHand("You don't have enough coins to call.")
                 ELSE \E r \in RandPct : bot_act(res.wallet, g1, r)
         ELSE \E r \in RandPct : bot_act(wallet, g, r)

bet_raise_locked(v) ==
    IF NoHand(v) THEN RejectHand("No active Hold'em game.")
    ELSE RejectHand("(modal)")

player_bet_or_raise_locked(v, amount) ==
    IF NoHand(v) THEN RejectHand("No active Hold'em game.")
    ELSE IF amount <= 0 THEN RejectHand("Bet must be positive.")
    ELSE LET g == HE_HU_GAMES_BY_ID[v]
             total == g.to_call_player + amount
             res == safe_wallet_delta(wallet, 0 - total)
             g1 == [g EXCEPT !.pot = @ + total, !.invested_player = @ + total,
                             !.to_call_bot = amount, !.to_call_player = 0]
         IN IF ~res.ok
            THEN RejectHand("You don't have enough coins for that bet/raise.")
            ELSE \E r \in RandPct : bot_act(res.wallet, g1, r)

fold_locked(v) ==
    IF NoHand(v) THEN RejectHand("No active Hold'em game.")
    ELSE FinishHoldem(wallet, HE_HU_GAMES_BY_ID[v], "False", "You folded.")

HandlerBody(req) ==
    IF req.kind = "check_call" THEN check_call_locked(req.view)
    ELSE IF req.kind = "bet_raise" THEN bet_raise_locked(req.view)
    ELSE IF req.kind = "fold" THEN fold_locked(req.view)
    ELSE player_bet_or_raise_locked(req.view, req.amount)

\* `async with _he_lock_for(key)`: on a free lock the handler runs on to the
\* reply it awaits while holding the lock; otherwise it queues on the lock.
async_with_lock(req) ==
    IF lock_free(he_lock)
    THEN /\ HandlerBody(req)
         /\ he_lock' = [he_lock EXCEPT !.held = @ + 1]
    ELSE /\ Len(he_lock.waiters) < MaxWaiters
         /\ he_lock' = [he_lock EXCEPT !.waiters = Append(@, req)]
         /\ UNCHANGED <<ledgerVars, HE_HU_GAMES_BY_ID, HE_HU_ACTIVE_BY_USER, reply>>

Request(v, kind, amount) == [view |-> v, kind |-> kind, amount |-> amount]
Pressable(v) == v \in DOMAIN heViews /\ heViews[v] = "live"

check_call(v) ==
    /\ Pressable(v)
    /\ async_with_lock(Request(v, "check_call", 0))
    /\ UNCHANGED <<heViews, duelVars>>

bet_raise(v) ==
    /\ Pressable(v)
    /\ async_with_lock(Request(v, "bet_raise", 0))
    /\ UNCHANGED <<heViews, duelVars>>

fold(v) ==
    /\ Pressable(v)
    /\ async_with_lock(Request(v, "fold", 0))
    /\ UNCHANGED <<heViews, duelVars>>

\* BetModal.on_submit of a modal opened from view v, with the text entered.
\* A modal outlives its view's timeout.
BetModal_on_submit(v, token) ==
    /\ v \in DOMAIN heViews
    /\ IF NoHand(v)
       THEN RejectHand("No active Hold'em game.") /\ UNCHANGED he_lock
       ELSE IF ~IsIntToken(strip(token))
       THEN RejectHand("Enter a valid number.") /\ UNCHANGED he_lock
       ELSE async_with_lock(Request(v, "raise", IntOf(strip(token))))
    /\ UNCHANGED <<heViews, duelVars>>

\* The reply a handler awaited inside the lock completes: the lock is released.
he_lock_release ==
    /\ lock_locked(he_lock)
    /\ he_lock' = [he_lock EXCEPT !.held = @ - 1]
    /\ UNCHANGED <<ledgerVars, duelVars, HE_HU_GAMES_BY_ID, HE_HU_ACTIVE_BY_USER,
                   heViews, reply>>

\* The first waiter of the released lock acquires it and runs.
he_lock_wake ==
    /\ ~lock_locked(he_lock) /\ he_lock.waiters # <<>>
    /\ HandlerBody(Head(he_lock.waiters))
    /\ he_lock' = [held |-> 1, waiters |-> Tail(he_lock.waiters)]
    /\ UNCHANGED <<heViews, duelVars>>

\* HoldemHUView.on_timeout of view v.
he_on_timeout(v) ==
    /\ Pressable(v)
    /\ heViews' = [heViews EXCEPT ![v] = "timedout"]
    /\ HE_HU_ACTIVE_BY_USER' =
         IF HE_HU_ACTIVE_BY_USER = v THEN 0 ELSE HE_HU_ACTIVE_BY_USER
    /\ HE_HU_GAMES_BY_ID' =
         [x \in (DOMAIN HE_HU_GAMES_BY_ID) \ {v} |-> HE_HU_GAMES_BY_ID[x]]
    /\ UNCHANGED <<ledgerVars, duelVars, he_lock, reply>>

\* /holdem.  secrets.token_hex gives an id no earlier game had.
FreshHandId == Cardinality(DOMAIN heViews) + 1

holdem(ante, deal) ==
    /\ Open /\ Cardinality(DOMAIN heViews) < MaxHands
    /\ IF ante < MIN_BET \/ ante > MAX_BET
       THEN RejectHand("Invalid ante") /\ UNCHANGED heViews
       ELSE IF he_active(HE_HU_ACTIVE_BY_USER, HE_HU_GAMES_BY_ID)
       THEN RejectHand("You already have an active Hold'em game.")
            /\ UNCHANGED heViews
       ELSE LET games == [x \in (DOMAIN HE_HU_GAMES_BY_ID) \ {HE_HU_ACTIVE_BY_USER}
                            |-> HE_HU_GAMES_BY_ID[x]]
                game_id == FreshHandId
                common == maybe_unlock_common_achs({ante}, {})
                w1 == update_wallet(wallet, 0 - ante)
            IN IF InsufficientFunds(ante, wallet)
               THEN /\ reply' = "You don't have enough coins to ante."
                    /\ HE_HU_ACTIVE_BY_USER' = 0
                    /\ HE_HU_GAMES_BY_ID' = games
                    /\ UNCHANGED <<ledgerVars, heViews>>
               ELSE /\ wallet' = update_wallet(w1, SumRewards(ach, common))
                    /\ ach' = ach \cup common
                    /\ HE_HU_GAMES_BY_ID' =
                         [x \in (DOMAIN games) \cup {game_id} |->
                            IF x = game_id THEN HoldemHU(game_id, ante, deal)
                            ELSE games[x]]
                    /\ HE_HU_ACTIVE_BY_USER' = game_id
                    /\ heViews' = [x \in (DOMAIN heViews) \cup {game_id} |->
                                     IF x = game_id THEN "live" ELSE heViews[x]]
                    /\ reply' = "Texas Hold'em"
                    /\ UNCHANGED <<stats, achievements_on, inventory, loan, now>>
    /\ UNCHANGED <<duelVars, he_lock>>

----------------------------------------------------------------------------
(* THE SYSTEM *)
\* The inputs the handlers are explored on.
BetInputs == {MIN_BET - 1, MIN_BET, 2 * MIN_BET, MAX_BET + 1}
ColorChoices == {"red", "black"}
\* random.choice(POCKETS) on a green, a red and a black pocket.
Rolls == {DoubleZero, 7, 17}
\* spin_slots() on a jackpot, a lesser match and no match.
Reels == {<<"crown", "crown", "crown">>, <<"cherry", "cherry", "cherry">>,
          <<"cherry", "lemon", "cherry">>}
\* The two hands blackjack() deals: a player natural, two naturals, 16
\* against 16, and 20 against a soft 17.
DuelDeals == {<<"A", "10", "10", "6">>, <<"10", "A", "A", "10">>,
              <<"10", "6", "6", "10">>, <<"10", "10", "A", "6">>}
PocketTokens == {<<"0", "0">>, <<" ", "7">>, <<"1", "7">>, <<"3", "7">>,
                 <<"-", "1">>, <<"x">>}
RaiseTokens == {<<"-", "5">>, <<"0">>, <<"1", "0">>, <<"x">>}
BuyItems == {"collectible_01", "collectible_00"}
BuyQtys == {0, 1, BUY_MAX_QTY + 1}
AdminAmounts == {0, 2 * MIN_BET}
LoanAmounts == {LOAN_MIN_PRINCIPAL - 1, LOAN_MIN_PRINCIPAL, LOAN_MAX_PRINCIPAL + 1}
RepayAmounts == {0, 5 * MIN_BET, LOAN_MAX_PRINCIPAL}
HandIds == 1..MaxHands

Scopes == {"ledger", "loans", "duel", "holdem", "games"}

\* The state after db_init and module load, but for the balance.
Fresh ==
    /\ stats = [plays |-> 0, profit |-> 0, bj_plays |-> 0, bj_profit |-> 0,
                slots_plays |-> 0, slots_profit |-> 0, he_plays |-> 0,
                he_profit |-> 0, he_wins |-> 0, he_losses |-> 0]
    /\ ach = {}
    /\ achievements_on = TRUE
    /\ inventory = [i \in DOMAIN ItemPrice |-> 0]
    /\ loan = NoLoan
    /\ now = StartTime
    /\ reply = ""
    /\ BJ_GAMES = 0
    /\ bjObj = <<>>
    /\ bjViews = <<>>
    /\ bjPending = {}
    /\ HE_HU_GAMES_BY_ID = <<>>
    /\ HE_HU_ACTIVE_BY_USER = 0
    /\ heViews = <<>>
    /\ he_lock = [held |-> 0, waiters |-> <<>>]

NoProbe == [kind |-> "none"]

Init ==
    /\ scope \in Scopes
    /\ probe = NoProbe
    /\ wallet = StartWallet
    /\ Fresh

\* A behaviour keeps to the scope it starts in: the wheel, reel, shop and
\* admin commands; the loan commands; the Card Duel with its timers; Heads-Up
\* with its timers; or ("games") at most MaxGames games played one after
\* another, with no timer firing and no other command.
In(S) == scope \in S /\ UNCHANGED <<scope, probe>>
Idle == BJ_GAMES = 0 /\ bjPending = {} /\ HE_HU_ACTIVE_BY_USER = 0
GamesPlayed == stats.plays + stats.slots_plays + stats.bj_plays + stats.he_plays
Turn == scope = "games" => (Idle /\ GamesPlayed < MaxGames)
\* In the "games" scope a button is pressed after the reply to the last one.
Replied == scope = "games" => lock_free(he_lock)

Next ==
    \/ /\ In({"ledger", "games"}) /\ Turn
       /\ \E bet \in BetInputs, choice \in ColorChoices, roll \in Rolls :
             roulette_color(bet, choice, roll)
    \/ /\ In({"ledger", "games"}) /\ Turn
       /\ \E bet \in BetInputs, pocket \in PocketTokens, roll \in Rolls :
             roulette_number(bet, pocket, roll)
    \/ /\ In({"ledger", "games"}) /\ Turn
       /\ \E bet \in BetInputs, reels \in Reels : slots(bet, reels)
    \/ In({"ledger"}) /\ \E item_id \in BuyItems, qty \in BuyQtys : buy(item_id, qty)
    \/ In({"ledger", "loans"}) /\ \E amount \in AdminAmounts : admin_give(amount)
    \/ In({"ledger", "loans"}) /\ \E amount \in AdminAmounts : admin_take(amount)
    \/ /\ In({"ledger", "loans"})
       /\ \E enabled \in BOOLEAN : settings_achievements(enabled)
    \/ In({"loans"}) /\ \E amount \in LoanAmounts : loan_take(amount)
    \/ In({"loans"}) /\ loan_status
    \/ In({"loans"}) /\ \E amount \in RepayAmounts : loan_repay(amount)
    \/ In({"loans"}) /\ Tick
    \/ /\ In({"duel", "games"}) /\ Turn
       /\ \E bet \in BetInputs, deal \in DuelDeals :
             blackjack(bet, deal[1], deal[2], deal[3], deal[4])
    \/ In({"duel", "games"}) /\ \E p \in bjPending : blackjack_natural(p)
    \/ In({"duel", "games"}) /\ \E v \in DuelIds, c \in DuelRanks : hit(v, c)
    \/ In({"duel", "games"}) /\ \E v \in DuelIds : stand(v)
    \/ In({"duel", "games"}) /\ \E v \in DuelIds, c \in DuelRanks : double(v, c)
    \/ In({"duel", "games"}) /\ \E v \in DuelIds : surrender(v)
    \/ In({"duel"}) /\ \E v \in DuelIds : bj_on_timeout(v)
    \/ In({"duel", "games"}) /\ \E v \in DuelIds : bj_edit_done(v)
    \/ /\ In({"holdem", "games"}) /\ Turn
       /\ \E ante \in BetInputs, deal \in HoldemDeals : holdem(ante, deal)
    \/ In({"holdem", "games"}) /\ Replied /\ \E v \in HandIds : check_call(v)
    \/ In({"holdem", "games"}) /\ Replied /\ \E v \in HandIds : bet_raise(v)
    \/ In({"holdem", "games"}) /\ Replied /\ \E v \in HandIds : fold(v)
    \/ /\ In({"holdem", "games"}) /\ Replied
       /\ \E v \in HandIds, token \in RaiseTokens : BetModal_on_submit(v, token)
    \/ In({"holdem", "games"}) /\ he_lock_release
    \/ In({"holdem", "games"}) /\ he_lock_wake
    \/ In({"holdem"}) /\ \E v \in HandIds : he_on_timeout(v)

Spec == Init /\ [][Next]_vars

----------------------------------------------------------------------------
(* PROPERTIES *)
\* What a rejected request leaves alone: the balance, the counters, the
\* achievements, the inventory, the loan, and both session registries with
\* the sessions in them.
Untouched ==
    UNCHANGED <<ledgerVars, BJ_GAMES, bjObj, HE_HU_GAMES_BY_ID, HE_HU_ACTIVE_BY_USER>>

InBounds(bet) == MIN_BET <= bet /\ bet <= MAX_BET
LiveDuel == BJ_GAMES # 0 /\ ~bjObj[BJ_GAMES].done
LiveHands == {g \in DOMAIN HE_HU_GAMES_BY_ID : ~HE_HU_GAMES_BY_ID[g].done}

\* The requests of Next that carry a stake: a wheel or reel bet, the start of
\* a Card Duel, the start of a Heads-Up hand, and the Heads-Up request at the
\* head of the lock's queue.
Wager(bet) ==
    /\ scope \in {"ledger", "games"} /\ Turn
    /\ \/ \E roll \in Rolls :
             \/ \E choice \in ColorChoices : roulette_color(bet, choice, roll)
             \/ \E pocket \in PocketTokens : roulette_number(bet, pocket, roll)
       \/ \E reels \in Reels : slots(bet, reels)

DuelStart(bet) ==
    /\ scope \in {"duel", "games"} /\ Turn
    /\ \E deal \in DuelDeals : blackjack(bet, deal[1], deal[2], deal[3], deal[4])

HandStart(ante) ==
    /\ scope \in {"holdem", "games"} /\ Turn
    /\ \E deal \in HoldemDeals : holdem(ante, deal)

Queued == he_lock.waiters # <<>>
QueuedStake ==
    LET req == Head(he_lock.waiters)
        g == HE_HU_GAMES_BY_ID[req.view]
    IN IF req.kind = "raise" THEN g.to_call_player + req.amount
       ELSE IF req.kind = "check_call" THEN g.to_call_player
       ELSE 0

\* The net results the settlements reported, and the rewards of the
\* achievements unlocked.
NetSum == stats.profit + stats.bj_profit + stats.slots_profit + stats.he_profit

RECURSIVE RewardsOf(_)
RewardsOf(A) ==
    IF A = {} THEN 0
    ELSE LET a == CHOOSE x \in A : TRUE IN AchReward[a] + RewardsOf(A \ {a})

\* C1: the account balance is never negative.
C1_BalanceNonNegative == wallet >= 0

\* C2 as amended: once a sequence of games has settled, the balance is the
\* initial balance plus the net results the settlements reported plus the
\* rewards of the achievements they unlocked.
C2_ConservationWithRewards ==
    (scope = "games" /\ Idle) =>
        wallet = StartWallet + NetSum + RewardsOf(ach)

\* C2 as stated: once a sequence of games has settled, the balance is the
\* initial balance plus the net results the settlements reported.
C2_Conservation ==
    (scope = "games" /\ Idle) => wallet = StartWallet + NetSum

\* Games have settled, one of them with an achievement reward.
C2_SettledWithReward ==
    scope = "games" /\ Idle /\ GamesPlayed = MaxGames /\ ach # {}

\* C3: whatever bets were accepted before it, no wager, Double, call or raise
\* whose stake exceeds the balance at the time it is handled is accepted: none
\* passes its funds check against an earlier balance.
C3_StakeWithinBalance ==
    [][~Untouched =>
        /\ \A bet \in BetInputs :
              bet > wallet => ~(Wager(bet) \/ DuelStart(bet) \/ HandStart(bet))
        /\ (scope \in {"duel", "games"} /\ LiveDuel) =>
              \A v \in DuelIds, c \in DuelRanks :
                  bjObj[BJ_GAMES].bet > wallet => ~double(v, c)
        /\ scope \in {"holdem", "games"} =>
              /\ \A v \in LiveHands :
                    LET g == HE_HU_GAMES_BY_ID[v] IN
                    /\ g.to_call_player > wallet => ~check_call(v)
                    /\ \A token \in RaiseTokens :
                          (IsIntToken(strip(token))
                             /\ g.to_call_player + IntOf(strip(token)) > wallet)
                              => ~BetModal_on_submit(v, token)
              /\ (/\ Queued
                  /\ Head(he_lock.waiters).view \in LiveHands
                  /\ QueuedStake > wallet) => ~he_lock_wake
      ]_vars

\* A bet that the starting balance covered is refused after an earlier bet
\* was accepted and lost.
C3_SecondBetRefused ==
    /\ scope = "ledger" /\ reply = "Not enough coins"
    /\ stats.plays + stats.slots_plays >= 1
    /\ MIN_BET <= wallet /\ wallet < 2 * MIN_BET /\ 2 * MIN_BET <= StartWallet

\* C4: when a live Heads-Up session idle-expires, it is removed from the
\* registry and the balance grows by the session's invested_player.
C4_ExpiryReturnsStake ==
    [][\A v \in HandIds :
          (v \in LiveHands /\ he_on_timeout(v)) =>
              /\ v \notin DOMAIN HE_HU_GAMES_BY_ID'
              /\ wallet' = wallet + HE_HU_GAMES_BY_ID[v].invested_player
      ]_vars

\* C5: at most one Heads-Up player action is inside the critical section of
\* the key at any time.
C5_OneActionInLock == he_lock.held <= 1

\* A second action was submitted while the first held the lock, and waits.
C5_SecondActionWaits == he_lock.held = 1 /\ he_lock.waiters # <<>>

\* C6: no session expiry takes effect while a player action is between its
\* writes.  A Heads-Up action and a Card Duel move make all their writes
\* before they first suspend; /blackjack suspends between registering a
\* natural and settling it, so: an expiry leaves the registry alone while a
\* /blackjack call is suspended there.
C6_ExpiryOutsideActions ==
    [][\A v \in DuelIds :
          (bjPending # {} /\ bj_on_timeout(v)) => BJ_GAMES' = BJ_GAMES
      ]_vars

\* C7: the key never has two live Heads-Up sessions (BJ_GAMES holds one Card
\* Duel per key), and a start request made while a session of the family is
\* live changes neither the balance nor the registry.
C7_OneLiveSession ==
    [][/\ Cardinality(LiveHands') <= 1
       /\ ~Untouched =>
            \A bet \in BetInputs :
                /\ LiveDuel => ~DuelStart(bet)
                /\ LiveHands # {} => ~HandStart(bet)
      ]_vars

\* A /holdem with a valid, affordable ante was refused because a session is
\* live.
C7_SecondStartRefused ==
    /\ reply = "You already have an active Hold'em game."
    /\ LiveHands # {} /\ wallet >= MIN_BET

\* C8: a Card Duel move made from the view of a session that is not the live
\* one, a Double or Surrender when the hand is not the two dealt cards or the
\* session is doubled, and a Heads-Up move for a session that is finished or
\* gone, change neither the balance nor the registries nor any session.
DuelMove(v) ==
    \/ \E c \in DuelRanks : hit(v, c)
    \/ stand(v)
    \/ \E c \in DuelRanks : double(v, c)
    \/ surrender(v)

HandMove(v) ==
    \/ check_call(v)
    \/ bet_raise(v)
    \/ fold(v)
    \/ \E token \in RaiseTokens : BetModal_on_submit(v, token)

C8_StaleMoveRejected ==
    [][/\ \A v \in DuelIds : (BJ_GAMES # v /\ DuelMove(v)) => Untouched
       /\ \A v \in DuelIds :
            (LiveDuel /\ (Len(bjObj[BJ_GAMES].player) # 2 \/ bjObj[BJ_GAMES].doubled)
                /\ ((\E c \in DuelRanks : double(v, c)) \/ surrender(v)))
                => Untouched
       /\ \A v \in HandIds : (v \notin LiveHands /\ HandMove(v)) => Untouched
      ]_vars

\* C9: a bet or ante outside MIN_BET..MAX_BET, a loan principal outside its
\* bounds, a pocket token that names no pocket, and a Heads-Up raise or a loan
\* repayment that is not positive are rejected with nothing changed.
GoodPocketTokens == {<<"0", "0">>, <<" ", "7">>, <<"1", "7">>}
NonPositiveTokens == {<<"-", "5">>, <<"0">>}

C9_InvalidInputRejected ==
    [][~Untouched =>
        /\ \A bet \in BetInputs :
              ~InBounds(bet) => ~(Wager(bet) \/ DuelStart(bet) \/ HandStart(bet))
        /\ (scope \in {"ledger", "games"} /\ Turn) =>
              \A bet \in BetInputs, pocket \in PocketTokens \ GoodPocketTokens,
                 roll \in Rolls : ~roulette_number(bet, pocket, roll)
        /\ scope = "loans" =>
              /\ \A amount \in LoanAmounts :
                    (amount < LOAN_MIN_PRINCIPAL \/ amount > LOAN_MAX_PRINCIPAL)
                        => ~loan_take(amount)
              /\ \A amount \in RepayAmounts : amount <= 0 => ~loan_repay(amount)
        /\ scope \in {"holdem", "games"} =>
              /\ \A v \in HandIds, token \in NonPositiveTokens :
                    ~BetModal_on_submit(v, token)
              /\ (/\ Queued
                  /\ Head(he_lock.waiters).kind = "raise"
                  /\ Head(he_lock.waiters).amount <= 0) => ~he_lock_wake
      ]_vars

\* A raise of 0 was refused while its session was live.
C9_ZeroRaiseRefused ==
    /\ reply = "Bet must be positive." /\ LiveHands # {}

\* C10: a wager, a Double, a call or a raise that the balance does not cover
\* is rejected with nothing changed, its session still live.
C10_InsufficientFundsRejected ==
    [][~Untouched =>
        /\ \A bet \in BetInputs :
              (InBounds(bet) /\ bet > wallet)
                  => ~(Wager(bet) \/ DuelStart(bet) \/ HandStart(bet))
        /\ (scope \in {"duel", "games"} /\ LiveDuel
               /\ bjObj[BJ_GAMES].bet > wallet) =>
              \A v \in DuelIds, c \in DuelRanks : ~double(v, c)
        /\ scope \in {"holdem", "games"} =>
              /\ \A v \in LiveHands :
                    LET g == HE_HU_GAMES_BY_ID[v] IN
                    /\ (g.to_call_player > 0 /\ g.to_call_player > wallet)
                          => ~check_call(v)
                    /\ \A token \in RaiseTokens \ NonPositiveTokens :
                          (IsIntToken(strip(token))
                             /\ g.to_call_player + IntOf(strip(token)) > wallet)
                              => ~BetModal_on_submit(v, token)
              /\ (/\ Queued
                  /\ Head(he_lock.waiters).view \in LiveHands
                  /\ QueuedStake > 0 /\ QueuedStake > wallet) => ~he_lock_wake
      ]_vars

\* A Double the balance did not cover was refused, the session still live
\* and not doubled.
C10_DoubleRefused ==
    /\ reply = "Not enough coins to double"
    /\ LiveDuel /\ ~bjObj[BJ_GAMES].doubled /\ bjObj[BJ_GAMES].bet > wallet

\* C11: when a live Card Duel session idle-expires, it is removed from the
\* registry and nothing else changes: not the balance, not the counters or
\* achievements, not the inventory or the loan.
C11_DuelExpiryOnlyRemoves ==
    [][\A v \in DuelIds :
          (LiveDuel /\ bj_on_timeout(v)) =>
              (BJ_GAMES' = 0 /\ UNCHANGED <<ledgerVars, holdemVars>>)
      ]_vars

\* The first Card Duel expired: the stake is gone, nothing was settled.
C11_DuelExpired ==
    /\ scope = "duel" /\ BJ_GAMES = 0 /\ bjPending = {}
    /\ DOMAIN bjViews = {1} /\ bjViews[1] = "timedout"
    /\ wallet = StartWallet - MIN_BET /\ stats.bj_plays = 0

\* C12: a step that enters a session into a registry has debited its stake
\* or ante in the same step; a step that records a wheel or reel outcome
\* moves the balance by the net it records, the stake included; and the
\* balance of a player of games grows only in a step that records an outcome
\* or unlocks an achievement.
RewardsGained == RewardsOf(ach') - RewardsOf(ach)

C12_DebitBeforeOutcome ==
    [][/\ (BJ_GAMES = 0 /\ BJ_GAMES' # 0) =>
            wallet' = wallet - bjObj'[BJ_GAMES'].bet + RewardsGained
       /\ \A g \in (DOMAIN HE_HU_GAMES_BY_ID') \ (DOMAIN HE_HU_GAMES_BY_ID) :
            wallet' = wallet - HE_HU_GAMES_BY_ID'[g].ante + RewardsGained
       /\ (stats'.plays > stats.plays \/ stats'.slots_plays > stats.slots_plays) =>
            wallet' = wallet + (stats'.profit - stats.profit)
                             + (stats'.slots_profit - stats.slots_profit)
                             + RewardsGained
       /\ (scope \in {"duel", "holdem", "games"} /\ wallet' > wallet) =>
            (GamesPlayed' > GamesPlayed \/ ach' # ach)
      ]_vars

\* A Card Duel is registered, nothing is settled, and its stake is debited.
C12_StakeHeld ==
    /\ LiveDuel /\ GamesPlayed = 0
    /\ wallet = StartWallet - bjObj[BJ_GAMES].bet

----------------------------------------------------------------------------
(* THE WHEEL, every pocket *)
\* One wheel bet on a balance that covers it: stakes on both sides of the
\* steps of the loss fee, every pocket drawn, both colors and the tokens of
\* five pockets wagered.
WheelStakes == {MIN_BET, 2 * MIN_BET - 1, 2 * MIN_BET, 4 * MIN_BET - 1, 4 * MIN_BET}
WheelWallets == {MaxWallet - 4 * MIN_BET, MaxWallet}
WheelTokens == {<<"0">>, <<"0", "0">>, <<"7">>, <<"1", "7">>, <<"3", "6">>}

InitWheel ==
    /\ scope = "wheel"
    /\ probe = NoProbe
    /\ wallet \in WheelWallets
    /\ Fresh

NextWheel ==
    \/ \E bet \in WheelStakes, choice \in ColorChoices, roll \in POCKETS :
          /\ roulette_color(bet, choice, roll)
          /\ probe' = [kind |-> "color", bet |-> bet, color |-> choice, roll |-> roll]
          /\ UNCHANGED scope
    \/ \E bet \in WheelStakes, pocket \in WheelTokens, roll \in POCKETS :
          /\ roulette_number(bet, pocket, roll)
          /\ probe' = [kind |-> "number", bet |-> bet, pocket |-> pocket, roll |-> roll]
          /\ UNCHANGED scope

SpecWheel == InitWheel /\ [][NextWheel]_vars

\* C13: for a stake in bounds and any of the 38 pockets drawn, a color wager
\* returns 3x the stake iff the pocket has the wagered color (0 and 00 have
\* none), an exact-pocket wager returns 36x the stake iff the pocket is the
\* wagered one (0 and 00 distinct); the loss fee floor(stake * 5 / 100) is
\* charged only when the payout is 0; the net recorded, and the move of the
\* balance, is payout - stake - fee.
RedPockets == {1, 3, 5, 7, 9, 12, 14, 16, 18, 19, 21, 23, 25, 27, 30, 32, 34, 36}
WageredPocket(token) ==
    CASE token = <<"0">> -> 0
      [] token = <<"0", "0">> -> DoubleZero
      [] token = <<"7">> -> 7
      [] token = <<"1", "7">> -> 17
      [] token = <<"3", "6">> -> 36

WheelNet(stake, match, mult) ==
    IF match THEN mult * stake - stake
    ELSE 0 - stake - ((stake * 5) \div 100)

C14_NaturalSettles ==
    [][\A p \in bjPending :
          blackjack_natural(p) =>
              LET stake == bjObj[p.gid].bet
                  net == IF p.dealer_bj THEN 0 ELSE (stake * 3) \div 2
              IN /\ BJ_GAMES' = 0
                 /\ stats'.bj_plays = stats.bj_plays + 1
                 /\ stats'.bj_profit = stats.bj_profit + net
                 /\ wallet' = wallet + stake + net + RewardsGained
      ]_vars

\* C15: Double is accepted only as the first decision of a session (two
\* cards held, not doubled); it debits one more original bet, doubles the
\* recorded bet and draws exactly one card; the session then ends in the same
\* step, either bust with net -2 x original or by the dealer's turn with a
\* win (+2 x original), push (0) or loss (-2 x original), so that no player
\* move follows.
C15_DoubleSettles ==
    [][(scope \in {"duel", "games"} /\ ~Untouched) =>
          \A v \in DuelIds, c \in DuelRanks :
              double(v, c) =>
                  LET g == bjObj[BJ_GAMES]
                      b == g.bet
                      net == stats'.bj_profit - stats.bj_profit
                  IN /\ Len(g.player) = 2 /\ ~g.doubled /\ b <= wallet
                     /\ BJ_GAMES' = 0
                     /\ stats'.bj_plays = stats.bj_plays + 1
                     /\ reply' \in {"win", "push", "loss"}
                     /\ net = CASE reply' = "win" -> 2 * b
                                [] reply' = "push" -> 0
                                [] reply' = "loss" -> 0 - 2 * b
                     /\ hand_value(Append(g.player, c)) > 21 => reply' = "loss"
                     /\ wallet' = wallet - b + (2 * b + net) + RewardsGained
      ]_vars

\* A doubled session was won: one game counted, twice the stake gained.
C15_DoubledWin ==
    /\ scope = "duel" /\ "bj_double" \in ach
    /\ stats.bj_plays = 1 /\ stats.bj_profit = 2 * MIN_BET
    /\ BJ_GAMES = 0

\* C16: a Heads-Up hand started with ante a debits a and is registered with
\* pot 2a, a invested by each side, nothing owed by either side, round 0.
\* When the player, owing nothing, bets N on a hand that stays live, N is
\* debited; if the opponent answered by putting in exactly the N it owed (a
\* call), the pot has grown by 2N, neither side owes anything and the round
\* has advanced by one; otherwise the opponent raised over the N it owed.
C16_PotAccounting ==
    [][(scope \in {"holdem", "games"} /\ ~Untouched) =>
          /\ \A v \in (DOMAIN HE_HU_GAMES_BY_ID') \ (DOMAIN HE_HU_GAMES_BY_ID) :
                LET g == HE_HU_GAMES_BY_ID'[v]
                    a == g.ante
                IN /\ wallet' = wallet - a
                   /\ g.pot = 2 * a
                   /\ g.invested_player = a /\ g.invested_bot = a
                   /\ g.to_call_player = 0 /\ g.to_call_bot = 0
                   /\ g.stage = 0
          /\ \A v \in LiveHands \cap (DOMAIN HE_HU_GAMES_BY_ID') :
                LET g == HE_HU_GAMES_BY_ID[v]
                    h == HE_HU_GAMES_BY_ID'[v]
                    N == h.invested_player - g.invested_player
                    answer == h.invested_bot - g.invested_bot
                IN (g.to_call_player = 0 /\ N > 0) =>
                      /\ wallet' = wallet - N
                      /\ h.pot = g.pot + N + answer
                      /\ h.to_call_bot = 0
                      /\ IF answer = N
                         THEN /\ h.pot = g.pot + 2 * N
                              /\ h.to_call_player = 0
                              /\ h.stage = g.stage + 1
                         ELSE /\ answer > N
                              /\ h.to_call_player = answer - N
                              /\ h.stage = g.stage
      ]_vars

\* Antes of 10, a bet of 10 matched on each of the first two rounds (a bot
\* raise at a pot of 40 would have been 16): pot 60 in the third round.
C16_BetCalled ==
    /\ scope = "holdem"
    /\ \E v \in LiveHands :
          LET g == HE_HU_GAMES_BY_ID[v]
          IN /\ g.ante = MIN_BET /\ g.pot = 2 * MIN_BET + 4 * MIN_BET
             /\ g.invested_player = 3 * MIN_BET /\ g.invested_bot = 3 * MIN_BET
             /\ g.to_call_player = 0 /\ g.to_call_bot = 0 /\ g.stage = 2
    /\ wallet = StartWallet - 3 * MIN_BET

----------------------------------------------------------------------------
(* THE HAND EVALUATOR ON ITS OWN *)
\* Every 5-card hand over the first HandRanks ranks (ace, 2, ...), up to the
\* choice of suits: each multiset of ranks with cards of differing suits,
\* and each set of five ranks in one suit.
HandRanks == 6
DealtSuits == <<"spades", "hearts", "diamonds", "clubs", "spades">>
RankSeqs ==
    {s \in [1..5 -> 1..HandRanks] :
        (\A i \in 1..4 : s[i] <= s[i + 1]) /\ s[1] # s[5]}
Offsuit(s) == [i \in 1..5 |-> <<RANKS[s[i]], DealtSuits[i]>>]
Suited(s) == [i \in 1..5 |-> <<RANKS[s[i]], "spades">>]
Hands ==
    {Offsuit(s) : s \in RankSeqs}
        \cup {Suited(s) : s \in {t \in RankSeqs : \A i \in 1..4 : t[i] < t[i + 1]}}

InitPoker ==
    /\ scope = "evaluator"
    /\ probe \in {[kind |-> "hand", a |-> h] : h \in Hands}
    /\ wallet = StartWallet /\ Fresh

\* The comparison _resolve_showdown and poker_best_7 make, on two hands.
NextPoker ==
    /\ probe.kind = "hand"
    /\ \E b \in Hands :
          probe' = [kind |-> "scores", a |-> probe.a, b |-> b,
                    sa |-> poker_score_5(probe.a), sb |-> poker_score_5(b)]
    /\ UNCHANGED <<ledgerVars, duelVars, holdemVars, reply, scope>>

SpecPoker == InitPoker /\ [][NextPoker]_vars

\* The categories of poker, by the rules of the game rather than by the
\* evaluator: from how many ranks a hand holds, how many cards of one rank,
\* whether the ranks are consecutive (the ace also below the 2), and whether
\* the suit is one.
CategoryOrder ==
    <<"high card", "one pair", "two pair", "three of a kind", "straight",
      "flush", "full house", "four of a kind", "straight flush">>
OrderOf(cat) == CHOOSE i \in 1..Len(CategoryOrder) : CategoryOrder[i] = cat

Pips(rank) == CHOOSE i \in 1..Len(RANKS) : RANKS[i] = rank
Category(hand) ==
    LET ranks == {hand[i][1] : i \in 1..5}
        most == CHOOSE n \in 1..5 :
                    /\ \E r \in ranks : Cardinality({i \in 1..5 : hand[i][1] = r}) = n
                    /\ \A r \in ranks : Cardinality({i \in 1..5 : hand[i][1] = r}) <= n
        suited == \A i \in 1..5 : hand[i][2] = hand[1][2]
        low == {Pips(r) : r \in ranks}
        high == {IF Pips(r) = 1 THEN 14 ELSE Pips(r) : r \in ranks}
        Run(S) == \E m \in S : S = m..(m + 4)
        straight == Cardinality(ranks) = 5 /\ (Run(low) \/ Run(high))
    IN CASE most = 4 -> "four of a kind"
         [] most = 3 /\ Cardinality(ranks) = 2 -> "full house"
         [] most = 3 /\ Cardinality(ranks) = 3 -> "three of a kind"
         [] most = 2 /\ Cardinality(ranks) = 3 -> "two pair"
         [] most = 2 /\ Cardinality(ranks) = 4 -> "one pair"
         [] most = 1 /\ straight /\ suited -> "straight flush"
         [] most = 1 /\ suited -> "flush"
         [] most = 1 /\ straight -> "straight"
         [] OTHER -> "high card"

\* C17: the evaluator's score puts every hand in its category, numbered in
\* the order high card < one pair < two pair < three of a kind < straight <
\* flush < full house < four of a kind < straight flush; scores compare by
\* category first and then by kickers lexicographically, so a hand of a
\* higher category beats every hand of a lower one (a flush a straight, a
\* straight three of a kind, three of a kind two pair).
C17_CategoryOrder ==
    probe.kind = "scores" =>
        LET ca == Category(probe.a)
            cb == Category(probe.b)
        IN /\ probe.sa[1] = OrderOf(ca) - 1
           /\ probe.sb[1] = OrderOf(cb) - 1
           /\ OrderOf(ca) < OrderOf(cb) => ScoreLess(probe.sa, probe.sb)
           /\ ScoreLess(probe.sa, probe.sb) <=>
                 \/ OrderOf(ca) < OrderOf(cb)
                 \/ ca = cb /\ ListLess(probe.sa[2], probe.sb[2])

\* Aces and sixes with a five lost to the flush ace, 2, 3, 4, 6.
C17_FlushBeatsTwoPair ==
    /\ probe.kind = "scores"
    /\ probe.a = Offsuit(<<1, 1, 5, 6, 6>>)
    /\ probe.b = Suited(<<1, 2, 3, 4, 6>>)
    /\ probe.sa[1] = 2 /\ probe.sb[1] = 5
    /\ ScoreLess(probe.sa, probe.sb)

\* C18: the wheel (ace, 2, 3, 4, 5) is scored as a straight, or as a
\* straight flush when suited, with top value 5: it ranks strictly below the
\* six-high straight of its kind and above every three of a kind.
IsWheel(hand) == {hand[i][1] : i \in 1..5} = {"A", "2", "3", "4", "5"}
IsSixHigh(hand) == {hand[i][1] : i \in 1..5} = {"2", "3", "4", "5", "6"}

C18_WheelStraight ==
    (probe.kind = "scores" /\ IsWheel(probe.a)) =>
        /\ probe.sa = IF Category(probe.a) = "straight flush"
                      THEN <<8, <<5>>>> ELSE <<4, <<5>>>>
        /\ (IsSixHigh(probe.b) /\ Category(probe.b) = Category(probe.a)) =>
              /\ ScoreLess(probe.sa, probe.sb)
              /\ probe.sb[2] = <<6>>
        /\ Category(probe.b) = "three of a kind" => ScoreLess(probe.sb, probe.sa)

\* The unsuited wheel against three aces.
C18_WheelBeatsAces ==
    /\ probe.kind = "scores"
    /\ probe.a = Offsuit(<<1, 2, 3, 4, 5>>)
    /\ probe.b = Offsuit(<<1, 1, 1, 5, 6>>)
    /\ probe.sa = <<4, <<5>>>> /\ probe.sb = <<3, <<14, 6, 5>>>>

----------------------------------------------------------------------------
(* LOAN ACCRUAL ON ITS OWN *)
\* A loan opened at StartTime with any of these amounts owed; the clock moves
\* by quarter days and /loan status accrues.
MaxQuarters == 10
AccrualBalances == {1, 3, 7, 100, 103, 1000}
QuarterDay == DAY_SECONDS \div 4

InitAccrual ==
    /\ scope = "accrual" /\ probe = NoProbe
    /\ wallet = StartWallet
    /\ stats = [plays |-> 0, profit |-> 0, bj_plays |-> 0, bj_profit |-> 0,
                slots_plays |-> 0, slots_profit |-> 0, he_plays |-> 0,
                he_profit |-> 0, he_wins |-> 0, he_losses |-> 0]
    /\ ach = {} /\ achievements_on = TRUE
    /\ inventory = [i \in DOMAIN ItemPrice |-> 0]
    /\ \E owed \in AccrualBalances : loan = set_loan(owed, owed, StartTime)
    /\ now = StartTime
    /\ reply = ""
    /\ BJ_GAMES = 0 /\ bjObj = <<>> /\ bjViews = <<>> /\ bjPending = {}
    /\ HE_HU_GAMES_BY_ID = <<>> /\ HE_HU_ACTIVE_BY_USER = 0 /\ heViews = <<>>
    /\ he_lock = [held |-> 0, waiters |-> <<>>]

NextAccrual ==
    \/ /\ now + QuarterDay <= StartTime + MaxQuarters * QuarterDay
       /\ now' = now + QuarterDay
       /\ probe' = [kind |-> "clock"]
       /\ UNCHANGED <<wallet, stats, ach, achievements_on, inventory, loan,
                      reply, duelVars, holdemVars, scope>>
    \/ /\ loan_status
       /\ probe' = [kind |-> "status", before |-> loan]
       /\ UNCHANGED scope

SpecAccrual == InitAccrual /\ [][NextAccrual]_vars

\* What is owed after d whole days: each day adds floor(owed * rate / 100) of
\* what was owed the day before.
Owed(start, d) ==
    LET day[k \in 0..d] ==
            IF k = 0 THEN start
            ELSE day[k - 1] + (day[k - 1] * LOAN_DAILY_INTEREST_PCT) \div 100
    IN day[d]

\* C19: an accrual adds floor(owed * 25 / 100) once for each whole day since
\* the last accrual, each day on the previous day's result, and moves the
\* accrual time on by those whole days; with less than a whole day elapsed it
\* changes nothing.  Whatever the times of the accruals, what is owed is the
\* opening amount compounded once per whole day accrued: 1000 after two days
\* is 1562.
C19_DailyCompounding ==
    [][probe'.kind = "status" =>
          LET whole == (now - loan.last_accrual) \div DAY_SECONDS
              total == (loan'.last_accrual - loan'.opened_at) \div DAY_SECONDS
          IN /\ loan'.balance = Owed(loan.balance, whole)
             /\ loan'.last_accrual = loan.last_accrual + whole * DAY_SECONDS
             /\ now - loan.last_accrual < DAY_SECONDS => loan' = loan
             /\ now - loan'.last_accrual < DAY_SECONDS
             /\ loan'.balance = Owed(loan'.principal, total)
             /\ (loan'.principal = 1000 /\ total = 2) => loan'.balance = 1562
      ]_vars

\* 1000 grown to 1562 over two days, seen half a day into the third.
C19_TwoDaysAndAHalf ==
    /\ scope = "accrual" /\ probe.kind = "status"
    /\ loan.principal = 1000 /\ loan.balance = 1562
    /\ loan.last_accrual = StartTime + 2 * DAY_SECONDS
    /\ now = StartTime + 2 * DAY_SECONDS + 2 * QuarterDay

\* C20: a loan request is rejected when the principal is outside
\* 100..LOAN_MAX_PRINCIPAL, leaving the balance and the loan as they were,
\* and when a loan with something owed exists, leaving the balance as it was
\* and the loan changed at most by the accrual of whole days; otherwise it
\* records a loan owing the principal and the balance moves by principal -
\* floor(principal * 10 / 100) plus the reward of any achievement the loan
\* unlocks.  A loan with something owed is therefore never replaced.
ActiveLoan == loan.present /\ loan.balance > 0

C20_LoanTake ==
    [][scope = "loans" =>
          \A amount \in LoanAmounts :
              loan_take(amount) =>
                  IF amount < LOAN_MIN_PRINCIPAL \/ amount > LOAN_MAX_PRINCIPAL
                  THEN wallet' = wallet /\ loan' = loan /\ ach' = ach
                  ELSE IF ActiveLoan
                  THEN /\ wallet' = wallet /\ ach' = ach
                       /\ loan'.present /\ loan'.principal = loan.principal
                       /\ loan'.opened_at = loan.opened_at
                       /\ \/ loan' = loan
                          \/ /\ now - loan.last_accrual >= DAY_SECONDS
                             /\ loan'.balance > loan.balance
                             /\ loan'.last_accrual > loan.last_accrual
                  ELSE /\ wallet' = wallet + amount
                                      - (amount * LOAN_ORIGINATION_FEE_PCT) \div 100
                                      + RewardsGained
                       /\ loan'.present
                       /\ loan'.principal = amount /\ loan'.balance = amount
                       /\ loan'.opened_at = now /\ loan'.last_accrual = now
      ]_vars

\* A second request met a loan of 100 and left it at 125, a day's interest
\* accrued, the balance still the 90 received on top of the start.
C20_SecondLoanRefused ==
    /\ scope = "loans" /\ reply = "Loan already active"
    /\ loan.principal = LOAN_MIN_PRINCIPAL /\ loan.balance = 125
    /\ wallet = StartWallet + 90

\* C20 as stated: a granted loan moves the balance by exactly principal -
\* floor(principal * 10 / 100).
C20_CreditIsPrincipalLessFee ==
    [][scope = "loans" =>
          \A amount \in LoanAmounts :
              (loan_take(amount) /\ reply' = "Loan taken" /\ ~ActiveLoan) =>
                  wallet' = wallet + amount
                              - (amount * LOAN_ORIGINATION_FEE_PCT) \div 100
      ]_vars

\* C21: a repayment accrues first and then pays min(requested, balance,
\* owed): what is owed falls by the payment, and the balance falls by it
\* less the reward of any achievement a full repayment unlocks; the loan is
\* deleted when nothing is left owing, so that no stored loan owes 0 or
\* less.  A request that is not positive, that finds no loan, or that finds
\* an empty balance changes nothing.
C21_LoanRepay ==
    [][scope = "loans" =>
          /\ loan'.present => loan'.balance > 0
          /\ \A amount \in RepayAmounts :
                loan_repay(amount) =>
                    LET whole == (now - loan.last_accrual) \div DAY_SECONDS
                        owed == Owed(loan.balance, whole)
                        pay == Min(Min(amount, wallet), owed)
                    IN IF amount <= 0 \/ ~ActiveLoan \/ wallet <= 0
                       THEN wallet' = wallet /\ loan' = loan /\ ach' = ach
                       ELSE /\ wallet' = wallet - pay + RewardsGained
                            /\ IF pay = owed
                               THEN ~loan'.present /\ loan'.balance = 0
                               ELSE /\ loan'.present
                                    /\ loan'.balance = owed - pay
                                    /\ loan'.principal = loan.principal
                                    /\ loan'.last_accrual =
                                         loan.last_accrual + whole * DAY_SECONDS
                                    /\ RewardsGained = 0
      ]_vars

\* 50 repaid on a loan of 100 grown to 125 in a day: 75 left owing.
C21_PartRepaidAfterADay ==
    /\ scope = "loans" /\ reply = "Loan repaid"
    /\ loan.present /\ loan.principal = LOAN_MIN_PRINCIPAL /\ loan.balance = 75
    /\ wallet = StartWallet + 90 - 5 * MIN_BET

\* C21 as stated: the balance falls by exactly the payment.
C21_BalanceFallsByPayment ==
    [][scope = "loans" =>
          \A amount \in RepayAmounts :
              (loan_repay(amount) /\ amount > 0 /\ ActiveLoan /\ wallet > 0) =>
                  LET whole == (now - loan.last_accrual) \div DAY_SECONDS
                      owed == Owed(loan.balance, whole)
                  IN wallet' = wallet - Min(Min(amount, wallet), owed)
      ]_vars

\* C22: in a Heads-Up session, whenever an action leaves both owed amounts
\* at zero (the player's call as well as the opponent's call or check) the
\* round advances before any further bet or raise is applied: a hand that is
\* still live after the player has matched what they owed is one round on,
\* with nothing owed and nothing more put in by the opponent.
C22_CallClosesRound ==
    [][(scope \in {"holdem", "games"} /\ ~Untouched) =>
          \A v \in LiveHands \cap (DOMAIN HE_HU_GAMES_BY_ID') :
              LET g == HE_HU_GAMES_BY_ID[v]
                  h == HE_HU_GAMES_BY_ID'[v]
              IN /\ (h # g /\ h.to_call_player = 0 /\ h.to_call_bot = 0) =>
                        h.stage = g.stage + 1
                 /\ (/\ g.to_call_player > 0
                     /\ h.invested_player = g.invested_player + g.to_call_player) =>
                        /\ h.stage = g.stage + 1
                        /\ h.to_call_player = 0 /\ h.to_call_bot = 0
                        /\ h.invested_bot = g.invested_bot
      ]_vars

\* C23: a Heads-Up round advances only with nothing owed on either side: a
\* hand found one round on has no amount owed, whatever the player owed
\* before has been paid in, and both sides have put in the same; the round
\* never moves by more than one, and never back.
C23_AdvanceOnlyWhenSquare ==
    [][(scope \in {"holdem", "games"} /\ ~Untouched) =>
          \A v \in LiveHands \cap (DOMAIN HE_HU_GAMES_BY_ID') :
              LET g == HE_HU_GAMES_BY_ID[v]
                  h == HE_HU_GAMES_BY_ID'[v]
              IN /\ h.stage \in {g.stage, g.stage + 1}
                 /\ h.stage > g.stage =>
                       /\ h.to_call_player = 0 /\ h.to_call_bot = 0
                       /\ h.invested_player >= g.invested_player + g.to_call_player
                       /\ h.invested_player = h.invested_bot
                 /\ (h.to_call_player > 0 \/ h.to_call_bot > 0) => h.stage = g.stage
      ]_vars

\* A hand one round on, 20 in from each side and nothing owed.
C23_AdvancedAfterCall ==
    /\ scope = "holdem"
    /\ \E v \in LiveHands :
          LET g == HE_HU_GAMES_BY_ID[v]
          IN /\ g.stage = 1 /\ g.pot = 4 * MIN_BET
             /\ g.invested_player = 2 * MIN_BET /\ g.invested_bot = 2 * MIN_BET
             /\ g.to_call_player = 0 /\ g.to_call_bot = 0
    /\ wallet = StartWallet - 2 * MIN_BET

----------------------------------------------------------------------------
(* ONE CARD DUEL AT THE TABLE *)
\* A single session on every deal of four cards over DuelRanks, with even and
\* odd stakes; each step records the request made.
TableStakes == {MIN_BET, MIN_BET + 1, 2 * MIN_BET + 1, 3 * MIN_BET - 1}
TableDeals == [1..4 -> DuelRanks]

InitTable == scope = "table" /\ probe = NoProbe /\ wallet = StartWallet /\ Fresh

NextTable ==
    \/ \E bet \in TableStakes, deal \in TableDeals :
          /\ UsedDuelIds = {}
          /\ blackjack(bet, deal[1], deal[2], deal[3], deal[4])
          /\ probe' = [kind |-> "blackjack", bet |-> bet]
          /\ UNCHANGED scope
    \/ \E p \in bjPending :
          /\ blackjack_natural(p)
          /\ probe' = [kind |-> "natural", bet |-> bjObj[p.gid].bet]
          /\ UNCHANGED scope
    \/ \E v \in DuelIds, c \in DuelRanks :
          /\ hit(v, c)
          /\ probe' = [kind |-> "hit", card |-> c]
          /\ UNCHANGED scope
    \/ \E v \in DuelIds :
          /\ stand(v)
          /\ probe' = [kind |-> "stand"]
          /\ UNCHANGED scope
    \/ \E v \in DuelIds, c \in DuelRanks :
          /\ double(v, c)
          /\ probe' = [kind |-> "double", card |-> c]
          /\ UNCHANGED scope
    \/ \E v \in DuelIds :
          /\ surrender(v)
          /\ probe' = [kind |-> "surrender"]
          /\ UNCHANGED scope
    \/ \E v \in DuelIds :
          /\ bj_edit_done(v)
          /\ probe' = [kind |-> "edited"]
          /\ UNCHANGED scope

SpecTable == InitTable /\ [][NextTable]_vars

\* C24: Surrender is accepted only as the first decision of a session (two
\* cards held, not doubled); it returns floor(stake / 2) and ends the
\* session with a loss counted at net floor(stake / 2) - stake, which is
\* -(stake / 2) rounded down: -5 on a stake of 10, -6 on a stake of 11.
C24_SurrenderHalf ==
    [][(probe'.kind = "surrender" /\ LiveDuel) =>
          LET g == bjObj[BJ_GAMES]
              stake == g.bet
          IN IF Len(g.player) = 2 /\ ~g.doubled
             THEN /\ BJ_GAMES' = 0
                  /\ reply' = "loss"
                  /\ wallet' = wallet + stake \div 2
                  /\ stats'.bj_plays = stats.bj_plays + 1
                  /\ stats'.bj_profit = stats.bj_profit + (0 - stake) \div 2
                  /\ stats'.bj_profit = stats.bj_profit - (stake - stake \div 2)
             ELSE Untouched
      ]_vars

\* A stake of 11 surrendered: 5 back, 6 lost.
C24_OddStakeSurrendered ==
    /\ scope = "table" /\ probe.kind = "surrender"
    /\ BJ_GAMES = 0 /\ stats.bj_plays = 1
    /\ stats.bj_profit = 0 - 6
    /\ wallet = StartWallet - (MIN_BET + 1) + 5

\* C25: no Hit, Stand, Double or Surrender is ever applied to a session
\* dealt a player natural: while such a session is registered and its
\* settlement is still to come, every move pressed is refused.
NaturalAwaited == BJ_GAMES # 0 /\ \E p \in bjPending : p.gid = BJ_GAMES

C25_NoMoveOnNatural ==
    [][(scope \in {"duel", "games"} /\ NaturalAwaited /\ ~Untouched) =>
          \A v \in DuelIds : ~DuelMove(v)
      ]_vars

\* C26: on Stand the dealer draws while below 17, and on 17 only when the
\* hand is soft and the dealer is set to hit a soft 17, so it stops on 17 or
\* more; then the player is credited 2 x bet if the dealer is bust or the
\* player's total is higher (net +bet), gets the bet back on equal totals
\* (net 0), and otherwise gets nothing (net -bet); every outcome ends the
\* session.
DrewBelow17(from, run, hit_soft_17) ==
    /\ Len(run.dealer) >= Len(from)
    /\ SubSeq(run.dealer, 1, Len(from)) = from
    /\ \A k \in Len(from)..(Len(run.dealer) - 1) :
          LET held == SubSeq(run.dealer, 1, k)
          IN \/ hand_value(held) < 17
             \/ hit_soft_17 /\ hand_value(held) = 17 /\ is_soft(held)
    /\ hand_value(run.dealer) >= 17
    /\ hit_soft_17 => ~(hand_value(run.dealer) = 17 /\ is_soft(run.dealer))

C26_DealerTurn ==
    [][(probe'.kind = "stand" /\ LiveDuel) =>
          LET g == bjObj[BJ_GAMES]
              pv == hand_value(g.player)
              net == stats'.bj_profit - stats.bj_profit
          IN /\ \A run \in DealerPlay(g.dealer, g.deck) :
                    DrewBelow17(g.dealer, run, ~BJ_DEALER_STANDS_SOFT_17)
             /\ \A run \in DealerLoop(g.dealer, g.deck, FALSE) :
                    DrewBelow17(g.dealer, run, TRUE)
             /\ \A run \in DealerLoop(g.dealer, g.deck, TRUE) :
                    DrewBelow17(g.dealer, run, FALSE)
             /\ BJ_GAMES' = 0
             /\ stats'.bj_plays = stats.bj_plays + 1
             /\ \E run \in DealerPlay(g.dealer, g.deck) :
                    LET dv == hand_value(run.dealer)
                    IN IF dv > 21 \/ pv > dv
                       THEN /\ reply' = "win" /\ net = g.bet
                            /\ wallet' = wallet + 2 * g.bet
                       ELSE IF pv = dv
                       THEN /\ reply' = "push" /\ net = 0
                            /\ wallet' = wallet + g.bet
                       ELSE /\ reply' = "loss" /\ net = 0 - g.bet
                            /\ wallet' = wallet
      ]_vars

\* A stake of 11 won on Stand: 22 credited.
C26_StandWon ==
    /\ scope = "table" /\ probe.kind = "stand" /\ reply = "win"
    /\ BJ_GAMES = 0 /\ stats.bj_plays = 1 /\ stats.bj_profit = MIN_BET + 1
    /\ wallet = StartWallet + MIN_BET + 1

\* C27: Hit draws exactly one card from the session's deck; if the player's
\* total is then over 21 the session ends as a loss at net -bet with nothing
\* credited, otherwise it stays live with that card in hand, the bet, the
\* dealer's cards and the balance as they were.
C27_HitDrawsOne ==
    [][(probe'.kind = "hit" /\ LiveDuel) =>
          LET g == bjObj[BJ_GAMES]
              c == probe'.card
              hand == Append(g.player, c)
          IN /\ g.deck[c] > 0
             /\ IF hand_value(hand) > 21
                THEN /\ BJ_GAMES' = 0
                     /\ reply' = "loss"
                     /\ wallet' = wallet
                     /\ stats'.bj_plays = stats.bj_plays + 1
                     /\ stats'.bj_profit = stats.bj_profit - g.bet
                ELSE /\ BJ_GAMES' = BJ_GAMES
                     /\ LET h == bjObj'[BJ_GAMES]
                        IN /\ h.player = hand
                           /\ h.bet = g.bet /\ h.dealer = g.dealer
                           /\ h.doubled = g.doubled /\ ~h.done
                           /\ \A r \in DOMAIN g.deck :
                                 h.deck[r] = IF r = c THEN g.deck[r] - 1 ELSE g.deck[r]
                     /\ wallet' = wallet /\ stats' = stats
      ]_vars

\* 10 and 6 hit with an ace: 17, the session still live.
C27_HitToSeventeen ==
    /\ scope = "table" /\ probe.kind = "hit"
    /\ LiveDuel /\ bjObj[BJ_GAMES].player = <<"10", "6", "A">>
    /\ bjObj[BJ_GAMES].deck["A"] < Cardinality(SUITS)
    /\ wallet = StartWallet - bjObj[BJ_GAMES].bet

----------------------------------------------------------------------------
(* THE VALUE OF A HAND ON ITS OWN *)
\* Every hand of up to MaxCards cards a 52-card deck can give, as ranks in
\* the order of RANKS.
MaxCards == 5
CardHands ==
    UNION {{[i \in 1..n |-> RANKS[s[i]]] :
               s \in {t \in [1..n -> 1..Len(RANKS)] :
                         /\ \A i \in 1..(n - 1) : t[i] <= t[i + 1]
                         /\ \A i \in 1..(n - Cardinality(SUITS)) :
                               t[i] # t[i + Cardinality(SUITS)]}} :
           n \in 1..MaxCards}

InitValue ==
    /\ scope = "value"
    /\ probe \in {[kind |-> "cards", hand |-> h] : h \in CardHands}
    /\ wallet = StartWallet /\ Fresh

NextValue ==
    /\ probe.kind = "cards"
    /\ probe' = [kind |-> "valued", hand |-> probe.hand,
                 value |-> hand_value(probe.hand), soft |-> is_soft(probe.hand)]
    /\ UNCHANGED <<ledgerVars, duelVars, holdemVars, reply, scope>>

SpecValue == InitValue /\ [][NextValue]_vars

\* C28: the value of a hand counts 2-10 at face, J, Q, K as 10 and each ace
\* as 1 or 11: it is the largest total not over 21 that the aces allow, or
\* the total with every ace as 1 if that is over 21; the hand is soft iff an
\* ace counts 11 in that total.
Face(rank) == IF Pips(rank) > 10 THEN 10 ELSE Pips(rank)
Hard(hand) ==
    LET sum[k \in 0..Len(hand)] == IF k = 0 THEN 0 ELSE sum[k - 1] + Face(hand[k])
    IN sum[Len(hand)]
Totals(hand) ==
    {Hard(hand) + 10 * k : k \in 0..Cardinality({i \in 1..Len(hand) : hand[i] = "A"})}
BestTotal(hand) ==
    IF \E t \in Totals(hand) : t <= 21
    THEN CHOOSE t \in Totals(hand) :
            t <= 21 /\ \A u \in Totals(hand) : u <= 21 => u <= t
    ELSE Hard(hand)

C28_HandValue ==
    probe.kind = "valued" =>
        /\ probe.value = BestTotal(probe.hand)
        /\ probe.soft <=> BestTotal(probe.hand) > Hard(probe.hand)

\* Ace, ace, 9: one ace at 11, the other at 1, a soft 21.
C28_TwoAcesAndNine ==
    /\ probe.kind = "valued" /\ probe.hand = <<"A", "A", "9">>
    /\ probe.value = 21 /\ probe.soft

----------------------------------------------------------------------------
(* THE OPPONENT'S POLICY ON ITS OWN *)
\* _bot_decision on pots from the antes up and on amounts owed from nothing to
\* several pots, with the draws of RandPct.  The handlers call it with the
\* player's bet already in the pot; the amounts here go beyond that.
PolicyPots == {2 * MIN_BET, 3 * MIN_BET, 5 * MIN_BET, 10 * MIN_BET}
PolicyOwed == {0, 1, MIN_BET, 3 * MIN_BET, 45, 46, 47, 15 * MIN_BET}

InitPolicy ==
    /\ scope = "policy"
    /\ probe \in {[kind |-> "position", pot |-> p, to_call_bot |-> o] :
                     p \in PolicyPots, o \in PolicyOwed}
    /\ wallet = StartWallet /\ Fresh

NextPolicy ==
    /\ probe.kind = "position"
    /\ \E r \in RandPct, deal \in HoldemDeals :
          LET game == [HoldemHU(1, MIN_BET, deal) EXCEPT
                          !.pot = probe.pot, !.to_call_bot = probe.to_call_bot]
          IN probe' = [kind |-> "decided", pot |-> probe.pot,
                       to_call_bot |-> probe.to_call_bot, r |-> r,
                       decision |-> bot_decision(game, r)]
    /\ UNCHANGED <<ledgerVars, duelVars, holdemVars, reply, scope>>

SpecPolicy == InitPolicy /\ [][NextPolicy]_vars

\* C30: with nothing owed the opponent only raises or checks; with an
\* amount owed that is at most 60% of the pot it would make by calling, it
\* only calls or raises; it folds only when the amount owed is more than 60%
\* of that pot.
OverThreshold(pot, owed) ==
    owed * 100 > HE_BOT_CALL_MAX_PCT_OF_POT * (pot + owed)

C30_OpponentPolicy ==
    probe.kind = "decided" =>
        /\ probe.decision \in {"raise", "check", "call", "fold"}
        /\ probe.to_call_bot = 0 => probe.decision \in {"raise", "check"}
        /\ (probe.to_call_bot > 0 /\ ~OverThreshold(probe.pot, probe.to_call_bot)) =>
              probe.decision \in {"call", "raise"}
        /\ probe.decision = "fold" =>
              probe.to_call_bot > 0 /\ OverThreshold(probe.pot, probe.to_call_bot)

\* 150 owed into a pot of 20, and a draw of 26: a fold.
C30_FoldsToOverbet ==
    /\ probe.kind = "decided"
    /\ probe.pot = 2 * MIN_BET /\ probe.to_call_bot = 15 * MIN_BET
    /\ probe.r = 26 /\ probe.decision = "fold"

\* C31: at a Heads-Up showdown each side's score is the greatest of the
\* scores of the 21 five-card subsets of its two hole cards and the five
\* community cards.  The hand ends there: with the player's score strictly
\* higher the pot is credited (a win at net pot - invested_player, what the
\* opponent put in); with equal scores exactly invested_player is credited
\* (net 0); otherwise nothing is credited (a loss at net -invested_player).
\* The balance moves by the net plus what the player had in before the
\* step, and by the reward of an achievement the step unlocks, which is
\* credited apart from the pot.
TopOf7(cards7) ==
    Bind({poker_score_5(Pick(cards7, S)) : S \in Combos5(7)},
         LAMBDA scores : CHOOSE b \in scores : \A x \in scores : ~ScoreLess(b, x))

TopOf ==
    [d \in HoldemDeals |-> <<TopOf7(d.player_hole \o d.full_board),
                             TopOf7(d.bot_hole \o d.full_board)>>]

AtShowdown ==
    /\ scope \in {"holdem", "games"}
    /\ stats'.he_plays > stats.he_plays
    /\ reply' \in {"Showdown.", "Showdown (tie)."}

ShowdownSettles(reward) ==
    \E v \in LiveHands :
        LET g == HE_HU_GAMES_BY_ID[v]
            net == stats'.he_profit - stats.he_profit
        IN /\ v \notin DOMAIN HE_HU_GAMES_BY_ID'
           /\ Cardinality(Combos5(7)) = 21
           /\ Bind(TopOf[DealOf(g)],
                   LAMBDA top :
                      IF ScoreLess(top[2], top[1])
                      THEN /\ net >= g.invested_bot
                           /\ stats'.he_wins = stats.he_wins + 1
                           /\ wallet' = wallet + g.invested_player + net + reward
                      ELSE IF top[1] = top[2]
                      THEN /\ net = 0
                           /\ stats'.he_wins = stats.he_wins
                           /\ wallet' = wallet + g.invested_player
                      ELSE /\ net <= 0 - g.invested_player
                           /\ stats'.he_wins = stats.he_wins
                           /\ wallet' = wallet + g.invested_player + net)

C31_Showdown == [][AtShowdown => ShowdownSettles(RewardsGained)]_vars

\* A pair of aces held against king high through four checked rounds: the
\* pot of 20 and the first win's reward credited.
C31_ShowdownWon ==
    /\ scope = "holdem" /\ reply = "Showdown."
    /\ stats.he_plays = 1 /\ stats.he_wins = 1 /\ stats.he_profit = MIN_BET
    /\ wallet = StartWallet + MIN_BET + AchReward["holdem_win"]
    /\ LiveHands = {}

\* C32: an accrual moves the accrual time on by the whole days it compounds
\* and so never past them to the time of the call; accruals at t1 and then
\* at t2 >= t1 therefore leave what a single accrual at t2 leaves, and a
\* second accrual at the same time leaves the first one's result.  After any
\* accruals up to now the loan is the opening loan accrued once at now, and
\* from there on an accrual at any later time gives the same result whether
\* or not this one was made.
AccrualTimes == {StartTime + q * QuarterDay : q \in 0..MaxQuarters}

C32_AccrualComposes ==
    [][probe'.kind = "status" =>
          LET opening == set_loan(loan.principal, loan.principal, loan.opened_at)
              whole == (now - opening.opened_at) \div DAY_SECONDS
          IN /\ loan' = [opening EXCEPT
                            !.balance = Owed(opening.balance, whole),
                            !.last_accrual = opening.opened_at + whole * DAY_SECONDS]
             /\ loan' = accrue_loan(opening, now)
             /\ loan'.last_accrual <= now
             /\ (now - loan.opened_at) % DAY_SECONDS # 0 => loan'.last_accrual < now
             /\ \A t2 \in AccrualTimes :
                   t2 >= now => accrue_loan(loan', t2) = accrue_loan(loan, t2)
             /\ accrue_loan(loan', now) = loan'
             /\ probe.kind = "status" => loan' = loan
      ]_vars

\* A loan of 100 accrued a day and a half after it was taken and again a day
\* later: 156 owed as of the second whole day, as one accrual would leave.
C32_AccruedTwice ==
    /\ scope = "accrual" /\ probe.kind = "status"
    /\ probe.before.last_accrual = StartTime + DAY_SECONDS
    /\ probe.before.balance = 125
    /\ now = StartTime + 10 * QuarterDay
    /\ loan.principal = 100 /\ loan.balance = 156
    /\ loan.last_accrual = StartTime + 2 * DAY_SECONDS

----------------------------------------------------------------------------
(* THE REELS *)
\* /slots on every outcome of the three reels, at stakes below the minimum,
\* at it, odd, and above the opening balance.
ReelStakes == {SLOTS_MIN_BET - 1, SLOTS_MIN_BET, 2 * SLOTS_MIN_BET + 1,
               4 * SLOTS_MIN_BET}
AllReels == [1..3 -> SLOTS_SYMBOLS]

InitReels ==
    /\ scope = "reels"
    /\ probe = NoProbe
    /\ wallet = StartWallet
    /\ Fresh

NextReels ==
    \E bet \in ReelStakes, reels \in AllReels :
        /\ slots(bet, reels)
        /\ probe' = [kind |-> "spin", bet |-> bet, reels |-> reels]
        /\ UNCHANGED scope

SpecReels == InitReels /\ [][NextReels]_vars

\* The multiplier of three of a kind.
Multiplier(sym) ==
    CASE sym = "cherry" -> 2 [] sym = "lemon" -> 3 [] sym = "grape" -> 5
      [] sym = "bell" -> 10 [] sym = "gem" -> 25 [] sym = "crown" -> 100

SpinSettles(reward) ==
    LET bet == probe'.bet
        r == probe'.reels
        payout == IF r[1] = r[2] /\ r[2] = r[3] THEN bet * Multiplier(r[1]) ELSE 0
        net == payout - bet
    IN /\ stats'.slots_profit = stats.slots_profit + net
       /\ stats'.slots_plays = stats.slots_plays + 1
       /\ wallet' = wallet + net + reward

\* C33 as amended: an accepted spin pays stake x the symbol's multiplier
\* when the three symbols are identical and nothing otherwise, two alike
\* included; net = payout - stake is what the reel counters record, and the
\* balance changes by net plus the reward of any achievement the spin
\* unlocks.
C33_ReelResolution ==
    [][(probe'.kind = "spin" /\ reply' = "Slots") => SpinSettles(RewardsGained)]_vars

\* Two cherries and a lemon at the minimum stake: the stake is lost.
C33_TwoAlikeLose ==
    /\ scope = "reels" /\ probe.kind = "spin" /\ reply = "Slots"
    /\ probe.reels = <<"cherry", "lemon", "cherry">> /\ probe.bet = SLOTS_MIN_BET
    /\ wallet = StartWallet - SLOTS_MIN_BET
    /\ stats.slots_profit = 0 - SLOTS_MIN_BET

\* C33 as stated: the balance changes by exactly net.
C33_BalanceChangesByNet ==
    [][(probe'.kind = "spin" /\ reply' = "Slots") => SpinSettles(0)]_vars

\* C34: the idle expiry of a Card Duel view removes only the session the
\* view was started for: fired while a later session of the player is
\* registered, it leaves that session in the registry.
C34_ExpiryOfOwnSession ==
    [][(scope = "duel" /\ BJ_GAMES # 0) =>
          \A v \in DuelIds \ {BJ_GAMES} :
              bj_on_timeout(v) => BJ_GAMES' = BJ_GAMES
      ]_vars

\* C35: a Card Duel or Heads-Up session is settled at most once, however
\* moves, repeated clicks, queued clicks and expiries interleave.  A step
\* records at most one result per game; it records one only by removing a
\* registered session from its registry; a session entering a registry has
\* an identity no earlier session had, so a removed session is never
\* settled again; and in the two games the balance grows only in a step that
\* records a result.  The results recorded never outnumber the sessions that
\* have left the registries.
HandsStarted == DOMAIN heViews
DuelsStarted == UsedDuelIds

C35_SettledOnce ==
    [][/\ stats'.bj_plays \in {stats.bj_plays, stats.bj_plays + 1}
       /\ stats'.he_plays \in {stats.he_plays, stats.he_plays + 1}
       /\ stats'.bj_plays > stats.bj_plays =>
            (BJ_GAMES # 0 /\ BJ_GAMES' = 0 /\ stats'.he_plays = stats.he_plays)
       /\ stats'.he_plays > stats.he_plays =>
            /\ Cardinality((DOMAIN HE_HU_GAMES_BY_ID) \ (DOMAIN HE_HU_GAMES_BY_ID')) = 1
            /\ (DOMAIN HE_HU_GAMES_BY_ID') \subseteq (DOMAIN HE_HU_GAMES_BY_ID)
       /\ (BJ_GAMES' # 0 /\ BJ_GAMES' # BJ_GAMES) => BJ_GAMES' \notin DuelsStarted
       /\ (DOMAIN HE_HU_GAMES_BY_ID') \ (DOMAIN HE_HU_GAMES_BY_ID)
              \subseteq (HandsStarted' \ HandsStarted)
       /\ (scope \in {"duel", "holdem"} /\ wallet' > wallet) =>
            (stats'.bj_plays > stats.bj_plays \/ stats'.he_plays > stats.he_plays)
       /\ stats.bj_plays + (IF BJ_GAMES # 0 THEN 1 ELSE 0) <= Cardinality(DuelsStarted)
       /\ stats.he_plays + Cardinality(DOMAIN HE_HU_GAMES_BY_ID)
              <= Cardinality(HandsStarted)
      ]_vars

\* Fold was pressed twice on one hand: the first press has settled it and
\* holds the lock, the second waits on the lock for a session that is gone.
C35_SecondFoldQueued ==
    /\ scope = "holdem" /\ reply = "You folded." /\ stats.he_plays = 1
    /\ lock_locked(he_lock) /\ he_lock.waiters # <<>>
    /\ Head(he_lock.waiters).kind = "fold"
    /\ Head(he_lock.waiters).view \notin DOMAIN HE_HU_GAMES_BY_ID
    /\ wallet = StartWallet - MIN_BET

\* C36: in every registered Heads-Up session the pot is what the two sides
\* have put in, invested_player + invested_bot; neither side's amount owed
\* is negative; and at most one side owes anything.
C36_PotIsInvested ==
    \A v \in DOMAIN HE_HU_GAMES_BY_ID :
        LET g == HE_HU_GAMES_BY_ID[v]
        IN /\ g.pot = g.invested_player + g.invested_bot
           /\ g.to_call_player >= 0 /\ g.to_call_bot >= 0
           /\ g.to_call_player = 0 \/ g.to_call_bot = 0
           /\ g.invested_player >= g.ante /\ g.invested_bot >= g.ante

\* A hand in which the player has put in a second 10 and owes the
\* opponent's latest raise.
C36_RaisedBack ==
    /\ scope = "holdem"
    /\ \E v \in LiveHands :
          LET g == HE_HU_GAMES_BY_ID[v]
          IN /\ g.ante = MIN_BET /\ g.invested_player = 2 * MIN_BET
             /\ g.to_call_player > 0 /\ g.to_call_bot = 0
             /\ g.invested_bot = g.invested_player + g.to_call_player
             /\ g.pot = g.invested_player + g.invested_bot

----------------------------------------------------------------------------
(* HEADS-UP: BETTING INTO THE OPPONENT *)
\* Hands in which the player does nothing but bet or raise, by a pot, by
\* several pots and by more than the balance, from a small and from a large
\* balance, against every draw of the opponent.  A handler that has been
\* started runs on, and a player with a live hand keeps betting.
OverbetWallets == {StartWallet, MaxWallet}
OverbetTokens == {<<"2", "0">>, <<"5", "0">>, <<"1", "1", "0">>}

InitOverbet ==
    /\ scope = "overbet"
    /\ probe = NoProbe
    /\ wallet \in OverbetWallets
    /\ Fresh

NextOverbet ==
    \/ /\ lock_free(he_lock)
       /\ \E deal \in HoldemDeals : holdem(MIN_BET, deal)
       /\ UNCHANGED <<scope, probe>>
    \/ /\ \E v \in HandIds, token \in OverbetTokens : BetModal_on_submit(v, token)
       /\ UNCHANGED <<scope, probe>>
    \/ he_lock_release /\ UNCHANGED <<scope, probe>>
    \/ he_lock_wake /\ UNCHANGED <<scope, probe>>

SpecOverbet == InitOverbet /\ [][NextOverbet]_vars /\ WF_vars(NextOverbet)

\* C37: the opponent folding is an outcome that occurs: a player who bets
\* into the opponent at every turn sees it fold, the hand ending with the
\* pot awarded to the player.
C37_OpponentFolds == <>(reply = "Bot folded.")

\* What holds instead: no step of any hand is the opponent's fold.  The
\* opponent decides with the player's bet already in the pot, so the amount
\* it owes is always less than half of the pot it would make by calling.
OpponentNeverFolds ==
    /\ reply # "Bot folded."
    /\ \A v \in DOMAIN HE_HU_GAMES_BY_ID :
          2 * HE_HU_GAMES_BY_ID[v].to_call_bot < HE_HU_GAMES_BY_ID[v].pot

\* C38: the round of a Heads-Up session never decreases and moves by at
\* most one per player action; it stays within 0..4; and a session that is
\* registered and not done is never in round 4: the action that takes the
\* round from 3 to 4 settles the showdown and removes the session in the
\* same step.
C38_RoundProgress ==
    [][/\ \A v \in DOMAIN HE_HU_GAMES_BY_ID :
             /\ HE_HU_GAMES_BY_ID[v].stage \in 0..3
             /\ ~HE_HU_GAMES_BY_ID[v].done
       /\ (scope \in {"holdem", "games"} /\ ~Untouched) =>
             /\ \A v \in (DOMAIN HE_HU_GAMES_BY_ID) \cap (DOMAIN HE_HU_GAMES_BY_ID') :
                   HE_HU_GAMES_BY_ID'[v].stage
                       \in {HE_HU_GAMES_BY_ID[v].stage, HE_HU_GAMES_BY_ID[v].stage + 1}
             /\ \A v \in (DOMAIN HE_HU_GAMES_BY_ID') \ (DOMAIN HE_HU_GAMES_BY_ID) :
                   HE_HU_GAMES_BY_ID'[v].stage = 0
             /\ AtShowdown =>
                   \A v \in (DOMAIN HE_HU_GAMES_BY_ID) \ (DOMAIN HE_HU_GAMES_BY_ID') :
                       /\ HE_HU_GAMES_BY_ID[v].stage = 3
                       /\ HE_HU_GAMES_BY_ID[v].to_call_bot = 0
             /\ (stats'.he_plays > stats.he_plays /\ ~AtShowdown) =>
                   reply' \in {"You folded.", "Bot folded."}
      ]_vars

\* A hand checked through to the last round: round 3, the antes in the pot,
\* and still registered.
C38_AtTheRiver ==
    /\ scope = "holdem"
    /\ \E v \in LiveHands :
          /\ HE_HU_GAMES_BY_ID[v].stage = 3
          /\ HE_HU_GAMES_BY_ID[v].pot = 2 * MIN_BET
          /\ HE_HU_GAMES_BY_ID[v].to_call_player = 0
          /\ HE_HU_ACTIVE_BY_USER = v

\* C39 as amended: a Card Duel session ends after a bounded number of
\* accepted moves.  An accepted Stand, Double or Surrender ends it in the
\* same step.  An accepted Hit either ends it in a bust or adds one card,
\* which strictly increases the hand's hard total (every ace counted 1);
\* a registered hand's hard total is at most 21 and no less than its number
\* of cards, so fewer than 20 Hits are accepted.  The deck is never
\* exhausted: a registered session has a card left for a Hit or a Double,
\* and the dealer's turn after any of them finds every card it draws.
CardsLeft(deck) ==
    LET left[k \in 0..Len(RANKS)] ==
            IF k = 0 THEN 0
            ELSE left[k - 1] + (IF RANKS[k] \in DOMAIN deck THEN deck[RANKS[k]] ELSE 0)
    IN left[Len(RANKS)]

DuelBounded(g) ==
    /\ Len(g.player) >= 2
    /\ Len(g.player) <= Hard(g.player) /\ Hard(g.player) <= 21
    /\ CardsLeft(g.deck) + Len(g.player) + Len(g.dealer) = CardsLeft(new_deck)
    /\ Avail(g.deck) # {}
    /\ DealerPlay(g.dealer, g.deck) # {}
    /\ \A c \in Avail(g.deck) : DealerPlay(g.dealer, draw_card(g.deck, c)) # {}

HitGrows(total(_)) ==
    (probe'.kind = "hit" /\ LiveDuel) =>
        \/ BJ_GAMES' = 0 /\ stats'.bj_plays = stats.bj_plays + 1
        \/ /\ BJ_GAMES' = BJ_GAMES
           /\ Len(bjObj'[BJ_GAMES].player) = Len(bjObj[BJ_GAMES].player) + 1
           /\ total(bjObj'[BJ_GAMES].player) > total(bjObj[BJ_GAMES].player)

C39_DuelTerminates ==
    [][/\ LiveDuel => DuelBounded(bjObj[BJ_GAMES])
       /\ HitGrows(Hard)
       /\ (probe'.kind \in {"stand", "double", "surrender"} /\ LiveDuel /\ ~Untouched) =>
             (BJ_GAMES' = 0 /\ stats'.bj_plays = stats.bj_plays + 1)
      ]_vars

\* A soft 17 of ace and 6 took a 10: three cards, still 17, the session
\* still live.
C39_SoftSeventeenHit ==
    /\ scope = "table" /\ probe.kind = "hit" /\ LiveDuel
    /\ bjObj[BJ_GAMES].player = <<"A", "6", "10">>
    /\ hand_value(bjObj[BJ_GAMES].player) = 17
    /\ Hard(bjObj[BJ_GAMES].player) = 17

\* C39 as stated: every accepted Hit strictly increases the hand's total.
C39_HitRaisesTotal == [][HitGrows(hand_value)]_vars

----------------------------------------------------------------------------
(* ACHIEVEMENT REWARDS *)
\* The loan, shop and reel commands issued again and again by a player who
\* may have unlocked any of their achievements before, with achievements
\* switched on and off in between; each step records the command.
RewardIds == {"loan_shark", "loan_paid", "first_buy", "slots_jackpot"}

InitRewards ==
    /\ scope = "rewards" /\ probe = NoProbe
    /\ wallet \in {StartWallet, MaxWallet}
    /\ stats = [plays |-> 0, profit |-> 0, bj_plays |-> 0, bj_profit |-> 0,
                slots_plays |-> 0, slots_profit |-> 0, he_plays |-> 0,
                he_profit |-> 0, he_wins |-> 0, he_losses |-> 0]
    /\ ach \in SUBSET RewardIds /\ achievements_on = TRUE
    /\ inventory = [i \in DOMAIN ItemPrice |-> 0]
    /\ loan = NoLoan /\ now = StartTime /\ reply = ""
    /\ BJ_GAMES = 0 /\ bjObj = <<>> /\ bjViews = <<>> /\ bjPending = {}
    /\ HE_HU_GAMES_BY_ID = <<>> /\ HE_HU_ACTIVE_BY_USER = 0 /\ heViews = <<>>
    /\ he_lock = [held |-> 0, waiters |-> <<>>]

NextRewards ==
    \/ /\ loan_take(LOAN_MIN_PRINCIPAL)
       /\ probe' = [kind |-> "loan_take"] /\ UNCHANGED scope
    \/ /\ loan_repay(LOAN_MAX_PRINCIPAL)
       /\ probe' = [kind |-> "loan_repay"] /\ UNCHANGED scope
    \/ /\ \E item \in DOMAIN ItemPrice : buy(item, 1)
       /\ probe' = [kind |-> "buy"] /\ UNCHANGED scope
    \/ /\ \E reels \in Reels : slots(SLOTS_MIN_BET, reels)
       /\ probe' = [kind |-> "slots"] /\ UNCHANGED scope
    \/ /\ \E enabled \in BOOLEAN : Open /\ settings_achievements(enabled)
       /\ probe' = [kind |-> "settings"] /\ UNCHANGED scope

SpecRewards == InitRewards /\ [][NextRewards]_vars

\* C40: the reward of an achievement is credited at most once to a player:
\* an achievement once unlocked stays unlocked, and a command that triggers
\* achievements moves the balance by its own amount plus the rewards of the
\* achievements it newly unlocks, so that a trigger of an achievement the
\* player already has adds nothing; the achievements a command unlocks are
\* those it triggers, while achievements are enabled.
Triggered(own) == ach' = ach \cup (IF achievements_on THEN own ELSE {})

C40_RewardOnce ==
    [][/\ ach \subseteq ach'
       /\ wallet' - wallet
             = (IF probe'.kind = "loan_take" /\ reply' = "Loan taken"
                THEN loan'.principal
                        - (loan'.principal * LOAN_ORIGINATION_FEE_PCT) \div 100
                ELSE IF probe'.kind = "loan_repay"
                        /\ reply' \in {"Loan repaid in full", "Loan repaid"}
                THEN loan'.balance - loan.balance
                ELSE IF probe'.kind = "buy" /\ reply' = "Purchase complete"
                THEN 0 - ItemPrice["collectible_01"]
                            * (inventory'["collectible_01"] - inventory["collectible_01"])
                ELSE IF probe'.kind = "slots"
                THEN stats'.slots_profit - stats.slots_profit
                ELSE 0)
               + RewardsOf(ach' \ ach)
       /\ (probe'.kind = "loan_take" /\ reply' = "Loan taken") => Triggered({"loan_shark"})
       /\ (probe'.kind = "loan_repay" /\ reply' = "Loan repaid in full") =>
             Triggered({"loan_paid"})
       /\ (probe'.kind = "buy" /\ reply' = "Purchase complete") => Triggered({"first_buy"})
       /\ (probe'.kind = "slots" /\ stats'.slots_profit > stats.slots_profit + SLOTS_MIN_BET) =>
             Triggered({"slots_jackpot"})
      ]_vars

\* A second loan taken by a player who has both loan achievements: 90 for
\* the first, 100 repaid, 90 for the second, and no reward either time.
C40_SecondLoanNoReward ==
    /\ scope = "rewards" /\ probe.kind = "loan_take" /\ reply = "Loan taken"
    /\ {"loan_shark", "loan_paid"} \subseteq ach
    /\ loan.present /\ loan.balance = LOAN_MIN_PRINCIPAL
    /\ wallet = StartWallet + 90 - LOAN_MIN_PRINCIPAL + 90
    /\ inventory["collectible_01"] = 0 /\ stats.slots_plays = 0

====
